---- MODULE Spec2Model ----
(***************************************************************************)
(* DIRECTIP receiver: the E-SURFMAR format #100 codec (eucaws_decoder.py), *)
(* the Iridium SBD DirectIP envelope parser (iridium_parser.py), the       *)
(* per-connection handler (socket_server.py) and the reprocessing command  *)
(* (reprocess_eucaws.py).                                                  *)
(*                                                                         *)
(* Representation.                                                         *)
(*   - Python None is <<>>, a present value v is <<v>>.                    *)
(*   - A Python float is the exact decimal it stands for, held as an       *)
(*     integer count of 10^-6 units (Dec).  Rounding error of the binary   *)
(*     floating point is below that resolution and is not modelled.        *)
(*   - bytes is a sequence of 0..255; str is a sequence of one-character   *)
(*     strings; an argument of a dynamically typed call is a record        *)
(*     [type, val].                                                        *)
(*   - A datetime is a record [year, month, day, hour, minute, second].    *)
(***************************************************************************)
EXTENDS Integers, Sequences, FiniteSets, TLC

None == <<>>
Some(v) == <<v>>
Val(o) == o[1]

\* n * 10^-e as a count of 10^-6 units
Dec(n, e) == n * 10^(6 - e)

\* the element of a one-element set; The({e(x) : x \in {v}}) is e(v) with v
\* computed once, as an assignment to a local does
The(S) == CHOOSE r \in S : TRUE

PyStr(s) == [type |-> "str", val |-> s]
PyBytes(b) == [type |-> "bytes", val |-> b]
PyNone == [type |-> "NoneType", val |-> <<>>]

----------------------------------------------------------------------------
(* bytes.fromhex and bytes.hex, as the interpreter computes them *)

HexDigits == <<"0","1","2","3","4","5","6","7","8","9","a","b","c","d","e","f">>

\* value of a hex digit, -1 for any other character
HexVal(c) ==
    CASE c \in {"0"} -> 0 [] c \in {"1"} -> 1 [] c \in {"2"} -> 2 [] c \in {"3"} -> 3
      [] c \in {"4"} -> 4 [] c \in {"5"} -> 5 [] c \in {"6"} -> 6 [] c \in {"7"} -> 7
      [] c \in {"8"} -> 8 [] c \in {"9"} -> 9
      [] c \in {"a", "A"} -> 10 [] c \in {"b", "B"} -> 11 [] c \in {"c", "C"} -> 12
      [] c \in {"d", "D"} -> 13 [] c \in {"e", "E"} -> 14 [] c \in {"f", "F"} -> 15
      [] OTHER -> -1

IsSpace(c) == c \in {" ", "\t", "\n", "\r", "\f"}

RECURSIVE fromhex_scan(_, _, _)
\* s: the characters, i: 0-based position, acc: the bytes so far
fromhex_scan(s, i, acc) ==
    IF i >= Len(s) THEN [exc |-> None, value |-> acc]
    ELSE IF IsSpace(s[i + 1]) THEN fromhex_scan(s, i + 1, acc)
    ELSE IF HexVal(s[i + 1]) < 0
         THEN [exc |-> Some("non-hexadecimal number found in fromhex() arg at position "
                            \o ToString(i)), value |-> acc]
    ELSE IF i + 1 >= Len(s) \/ HexVal(s[i + 2]) < 0
         THEN [exc |-> Some("non-hexadecimal number found in fromhex() arg at position "
                            \o ToString(i + 1)), value |-> acc]
    ELSE fromhex_scan(s, i + 2, Append(acc, HexVal(s[i + 1]) * 16 + HexVal(s[i + 2])))

\* bytes.fromhex(arg): a TypeError for anything but a str
bytes_fromhex(arg) ==
    IF arg.type # "str"
    THEN [exc |-> Some("fromhex() argument must be str, not " \o arg.type), value |-> <<>>]
    ELSE fromhex_scan(arg.val, 0, <<>>)

\* b.hex(): two lower-case digits per byte
bytes_hex(b) ==
    [n \in 1..(2 * Len(b)) |->
        IF n % 2 = 1 THEN HexDigits[(b[(n + 1) \div 2] \div 16) + 1]
        ELSE HexDigits[(b[n \div 2] % 16) + 1]]

----------------------------------------------------------------------------
(* BitReader *)

RECURSIVE read_bits_loop_off_by_one(_, _, _, _)
\* read_bits with the end-of-data test one byte early
read_bits_loop_off_by_one(data, bit_position, k, acc) ==
    IF k = 0 THEN [exc |-> None, value |-> acc, bit_position |-> bit_position]
    ELSE LET byte_index == bit_position \div 8
             bit_index  == 7 - (bit_position % 8)
         IN  IF byte_index >= Len(data) - 1
             THEN [exc |-> Some("Attempt to read beyond data length at bit "
                                \o ToString(bit_position)),
                   value |-> acc, bit_position |-> bit_position]
             ELSE read_bits_loop_off_by_one(data, bit_position + 1, k - 1,
                                 acc * 2 + ((data[byte_index + 1] \div (2^bit_index)) % 2))

RECURSIVE read_bits_loop(_, _, _, _)
\* the for loop of read_bits: k bits left to read, result so far acc
read_bits_loop(data, bit_position, k, acc) ==
    IF k = 0 THEN [exc |-> None, value |-> acc, bit_position |-> bit_position]
    ELSE LET byte_index == bit_position \div 8
             bit_index  == 7 - (bit_position % 8)
         IN  IF byte_index >= Len(data)
             THEN [exc |-> Some("Attempt to read beyond data length at bit "
                                \o ToString(bit_position)),
                   value |-> acc, bit_position |-> bit_position]
             ELSE read_bits_loop(data, bit_position + 1, k - 1,
                                 acc * 2 + ((data[byte_index + 1] \div (2^bit_index)) % 2))

read_bits(data, bit_position, num_bits) ==
    IF num_bits = 0 THEN [exc |-> None, value |-> 0, bit_position |-> bit_position]
    ELSE read_bits_loop(data, bit_position, num_bits, 0)

\* read_signed_bits that takes the top bit as a sign and the rest as a
\* magnitude
read_signed_bits_sign_magnitude(data, bit_position, num_bits) ==
    LET r == read_bits(data, bit_position, num_bits)
    IN  IF r.exc # None THEN r
        ELSE IF (r.value \div (2^(num_bits - 1))) % 2 = 1
             THEN [r EXCEPT !.value = 0 - (r.value - 2^(num_bits - 1))]
             ELSE r

read_signed_bits(data, bit_position, num_bits) ==
    LET r == read_bits(data, bit_position, num_bits)
    IN  IF r.exc # None THEN r
        ELSE IF (r.value \div (2^(num_bits - 1))) % 2 = 1
             THEN [r EXCEPT !.value = r.value - 2^num_bits]
             ELSE r

----------------------------------------------------------------------------
(* decode_eucaws_payload *)

\* the result dictionary as first built
InitialResult ==
    [ is_decoded |-> FALSE, decode_error |-> None,
      decoder_version |-> "E-SURFMAR Format #100 Official v1.9",
      format_version |-> None, timestamp |-> None,
      latitude |-> None, longitude |-> None,
      barometric_pressure |-> None, msl_pressure |-> None,
      pressure_tendency_3h |-> None, pressure_tendency_char |-> None,
      wind_direction_true |-> None, wind_speed_ms |-> None, wind_speed_knots |-> None,
      wind_direction_relative |-> None, wind_speed_relative |-> None,
      wind_gust_speed |-> None, wind_gust_direction |-> None,
      air_temperature |-> None, sea_temperature |-> None, relative_humidity |-> None,
      battery_voltage |-> None, processor_temperature |-> None, gps_height |-> None,
      ship_course |-> None, ship_speed |-> None, ship_heading |-> None, draft |-> None,
      callsign_encrypted |-> None,
      has_visual_obs |-> FALSE, has_wave_obs |-> FALSE,
      has_ice_obs |-> FALSE, has_other_obs |-> FALSE ]

\* the reads of the green block in the order the decoder makes them:
\* the variable read into, the number of bits, read_signed_bits or read_bits
GreenBlock ==
    << [var |-> "format_id",  bits |-> 8,  signed |-> FALSE],
       [var |-> "callsign_encrypted_bit", bits |-> 1, signed |-> FALSE],
       [var |-> "cog_raw",    bits |-> 7,  signed |-> FALSE],
       [var |-> "sog_raw",    bits |-> 6,  signed |-> FALSE],
       [var |-> "hdt_raw",    bits |-> 7,  signed |-> FALSE],
       [var |-> "draft_raw",  bits |-> 5,  signed |-> TRUE],
       [var |-> "year_raw",   bits |-> 7,  signed |-> FALSE],
       [var |-> "month",      bits |-> 4,  signed |-> FALSE],
       [var |-> "day",        bits |-> 6,  signed |-> FALSE],
       [var |-> "hour",       bits |-> 5,  signed |-> FALSE],
       [var |-> "minute",     bits |-> 6,  signed |-> FALSE],
       [var |-> "lat_raw",    bits |-> 15, signed |-> TRUE],
       [var |-> "lon_raw",    bits |-> 16, signed |-> TRUE],
       [var |-> "press_raw",  bits |-> 11, signed |-> FALSE],
       [var |-> "mslp_raw",   bits |-> 11, signed |-> FALSE],
       [var |-> "ppp_raw",    bits |-> 10, signed |-> TRUE],
       [var |-> "a_raw",      bits |-> 4,  signed |-> FALSE],
       [var |-> "dd_raw",     bits |-> 7,  signed |-> FALSE],
       [var |-> "ff_raw",     bits |-> 10, signed |-> FALSE],
       [var |-> "rwd_raw",    bits |-> 7,  signed |-> FALSE],
       [var |-> "rws_raw",    bits |-> 8,  signed |-> FALSE],
       [var |-> "ffmax_raw",  bits |-> 8,  signed |-> FALSE],
       [var |-> "ddmax_raw",  bits |-> 7,  signed |-> FALSE],
       [var |-> "ta_raw",     bits |-> 10, signed |-> FALSE],
       [var |-> "u_raw",      bits |-> 10, signed |-> FALSE],
       [var |-> "sst_raw",    bits |-> 12, signed |-> FALSE],
       [var |-> "vbat_raw",   bits |-> 7,  signed |-> FALSE],
       [var |-> "tproc_raw",  bits |-> 8,  signed |-> FALSE],
       [var |-> "gps_h_raw",  bits |-> 8,  signed |-> TRUE],
       [var |-> "has_visual_obs", bits |-> 1, signed |-> FALSE],
       [var |-> "has_wave_obs",   bits |-> 1, signed |-> FALSE],
       [var |-> "has_ice_obs",    bits |-> 1, signed |-> FALSE],
       [var |-> "has_other_obs",  bits |-> 1, signed |-> FALSE] >>

IsLeap(year) == year % 4 = 0 /\ (year % 100 # 0 \/ year % 400 = 0)

DaysInMonth(year, month) ==
    IF month = 2 THEN (IF IsLeap(year) THEN 29 ELSE 28)
    ELSE IF month \in {4, 6, 9, 11} THEN 30 ELSE 31

\* datetime(year, month, day, hour, minute, tzinfo=utc): None where the
\* constructor raises ValueError
datetime(year, month, day, hour, minute) ==
    IF /\ year \in 1..9999 /\ month \in 1..12
       /\ day >= 1 /\ day <= DaysInMonth(year, month)
       /\ hour \in 0..23 /\ minute \in 0..59
    THEN Some([year |-> year, month |-> month, day |-> day,
               hour |-> hour, minute |-> minute, second |-> 0])
    ELSE None

\* the timestamp fallback with the session time left unused
decode_timestamp_ignores_session_time(year, month, day, hour, minute, session_time, now) ==
    LET built == IF month >= 1 /\ month <= 12 /\ day >= 1 /\ day <= 31
                    /\ hour >= 0 /\ hour <= 23 /\ minute >= 0 /\ minute <= 59
                 THEN datetime(year, month, day, hour, minute)
                 ELSE None
    IN  IF built # None THEN built ELSE Some(now)

\* the timestamp built with the seconds of the clock
decode_timestamp_clock_seconds(year, month, day, hour, minute, session_time, now) ==
    LET built == IF month >= 1 /\ month <= 12 /\ day >= 1 /\ day <= 31
                    /\ hour >= 0 /\ hour <= 23 /\ minute >= 0 /\ minute <= 59
                 THEN datetime(year, month, day, hour, minute)
                 ELSE None
    IN  IF built # None THEN Some([Val(built) EXCEPT !.second = now.second])
        ELSE IF session_time # None THEN session_time ELSE Some(now)

\* the try/except ValueError around the timestamp (lines 204-211)
decode_timestamp(year, month, day, hour, minute, session_time, now) ==
    LET built == IF month >= 1 /\ month <= 12 /\ day >= 1 /\ day <= 31
                    /\ hour >= 0 /\ hour <= 23 /\ minute >= 0 /\ minute <= 59
                 THEN datetime(year, month, day, hour, minute)
                 ELSE None
    IN  IF built # None THEN built
        ELSE IF session_time # None THEN session_time ELSE Some(now)

\* the format check without its return statement
check_format_id_no_return(st, format_id) ==
    IF format_id # 100
    THEN [st EXCEPT !.result.format_version = Some(format_id),
                    !.result.decode_error = Some("Invalid format ID: " \o ToString(format_id)
                                                 \o " (expected 100 for S-AWS)")]
    ELSE [st EXCEPT !.result.format_version = Some(format_id)]

\* lines 151-156: record the format identifier, return on any but 100
check_format_id(st, format_id) ==
    IF format_id # 100
    THEN [st EXCEPT !.result.format_version = Some(format_id),
                    !.result.decode_error = Some("Invalid format ID: " \o ToString(format_id)
                                                 \o " (expected 100 for S-AWS)"),
                    !.returned = TRUE]
    ELSE [st EXCEPT !.result.format_version = Some(format_id)]

\* what the decoder does with the value v just read into variable var;
\* st holds the result dictionary and the local variables
decode_store(st, var, v, session_time, now) ==
    LET res == st.result IN
    CASE var = "format_id" -> check_format_id(st, v)
      [] var = "callsign_encrypted_bit" ->
           [st EXCEPT !.result = [res EXCEPT !.callsign_encrypted = Some(v = 0)]]
      [] var = "cog_raw" ->
           IF v # 127 THEN [st EXCEPT !.result = [res EXCEPT !.ship_course = Some(Dec(v * 5, 0))]]
           ELSE st
      [] var = "sog_raw" ->
           IF v # 63 THEN [st EXCEPT !.result = [res EXCEPT !.ship_speed = Some(Dec(v * 5, 1))]]
           ELSE st
      [] var = "hdt_raw" ->
           IF v # 127 THEN [st EXCEPT !.result = [res EXCEPT !.ship_heading = Some(Dec(v * 5, 0))]]
           ELSE st
      [] var = "draft_raw" ->
           IF v # -16 THEN [st EXCEPT !.result = [res EXCEPT !.draft = Some(Dec(v, 0) - Dec(10, 0))]]
           ELSE st
      [] var = "year_raw" -> [st EXCEPT !.year = v + 2000]
      [] var = "month" -> [st EXCEPT !.month = v]
      [] var = "day" -> [st EXCEPT !.day = v]
      [] var = "hour" -> [st EXCEPT !.hour = v]
      [] var = "minute" ->
           [st EXCEPT !.result = [res EXCEPT !.timestamp =
                decode_timestamp(st.year, st.month, st.day, st.hour, v, session_time, now)]]
      [] var = "lat_raw" ->
           IF v # -16384
           THEN [st EXCEPT !.result = [res EXCEPT !.latitude = Some(Dec(v, 2) - Dec(90, 0))]]
           ELSE st
      [] var = "lon_raw" ->
           IF v # -32768
           THEN [st EXCEPT !.result = [res EXCEPT !.longitude = Some(Dec(v, 2) - Dec(180, 0))]]
           ELSE st
      [] var = "press_raw" ->
           IF v # 2047
           THEN [st EXCEPT !.result = [res EXCEPT !.barometric_pressure = Some(Dec(v * 10 + 85000, 2))]]
           ELSE st
      [] var = "mslp_raw" ->
           IF v # 2047
           THEN [st EXCEPT !.result = [res EXCEPT !.msl_pressure = Some(Dec(v * 10 + 85000, 2))]]
           ELSE st
      [] var = "ppp_raw" ->
           IF v # -512
           THEN [st EXCEPT !.result = [res EXCEPT !.pressure_tendency_3h = Some(Dec(v * 10 - 5000, 2))]]
           ELSE st
      [] var = "a_raw" ->
           IF v # 15 THEN [st EXCEPT !.result = [res EXCEPT !.pressure_tendency_char = Some(v)]]
           ELSE st
      [] var = "dd_raw" ->
           IF v # 127
           THEN [st EXCEPT !.result = [res EXCEPT !.wind_direction_true = Some(Dec(v * 5, 0))]]
           ELSE st
      [] var = "ff_raw" ->
           IF v # 1023
           THEN [st EXCEPT !.result = [res EXCEPT !.wind_speed_ms = Some(Dec(v, 1)),
                                                  !.wind_speed_knots = Some(Dec(v * 194384, 6))]]
           ELSE st
      [] var = "rwd_raw" ->
           IF v # 127
           THEN [st EXCEPT !.result = [res EXCEPT !.wind_direction_relative = Some(Dec(v * 5, 0))]]
           ELSE st
      [] var = "rws_raw" ->
           IF v # 255
           THEN [st EXCEPT !.result = [res EXCEPT !.wind_speed_relative = Some(Dec(v * 5, 1))]]
           ELSE st
      [] var = "ffmax_raw" ->
           IF v # 255
           THEN [st EXCEPT !.result = [res EXCEPT !.wind_gust_speed = Some(Dec(v * 5, 1))]]
           ELSE st
      [] var = "ddmax_raw" ->
           IF v # 127
           THEN [st EXCEPT !.result = [res EXCEPT !.wind_gust_direction = Some(Dec(v * 5, 0))]]
           ELSE st
      [] var = "ta_raw" ->
           IF v # 1023
           THEN [st EXCEPT !.result = [res EXCEPT !.air_temperature =
                                         Some(Dec(v, 1) + Dec(2232, 1) - Dec(27315, 2))]]
           ELSE st
      [] var = "u_raw" ->
           IF v # 1023
           THEN [st EXCEPT !.result = [res EXCEPT !.relative_humidity = Some(Dec(v, 1))]]
           ELSE st
      [] var = "sst_raw" ->
           IF v # 4095
           THEN [st EXCEPT !.result = [res EXCEPT !.sea_temperature =
                                         Some(Dec(v, 2) + Dec(26815, 2) - Dec(27315, 2))]]
           ELSE st
      [] var = "vbat_raw" ->
           IF v # 127
           THEN [st EXCEPT !.result = [res EXCEPT !.battery_voltage = Some(Dec(v * 2, 1) + Dec(5, 0))]]
           ELSE st
      [] var = "tproc_raw" ->
           IF v # 255
           THEN [st EXCEPT !.result = [res EXCEPT !.processor_temperature =
                                         Some(Dec(v * 5, 1) + Dec(23315, 2) - Dec(27315, 2))]]
           ELSE st
      [] var = "gps_h_raw" ->
           IF v # -128
           THEN [st EXCEPT !.result = [res EXCEPT !.gps_height = Some(Dec(v, 0) - Dec(50, 0))]]
           ELSE st
      [] var = "has_visual_obs" -> [st EXCEPT !.result = [res EXCEPT !.has_visual_obs = (v # 0)]]
      [] var = "has_wave_obs"   -> [st EXCEPT !.result = [res EXCEPT !.has_wave_obs = (v # 0)]]
      [] var = "has_ice_obs"    -> [st EXCEPT !.result = [res EXCEPT !.has_ice_obs = (v # 0)]]
      [] var = "has_other_obs"  -> [st EXCEPT !.result = [res EXCEPT !.has_other_obs = (v # 0)]]

RECURSIVE decode_green_block(_, _, _, _, _)
\* the reads from number i on; stops at a return or at the first exception
decode_green_block(st, payload_bytes, i, session_time, now) ==
    IF i > Len(GreenBlock) \/ st.returned \/ st.exc # None THEN st
    ELSE LET f == GreenBlock[i]
             r == IF f.signed THEN read_signed_bits(payload_bytes, st.bit_position, f.bits)
                  ELSE read_bits(payload_bytes, st.bit_position, f.bits)
         IN  IF r.exc # None
             THEN [st EXCEPT !.exc = r.exc, !.bit_position = r.bit_position]
             ELSE decode_green_block(
                      decode_store([st EXCEPT !.bit_position = r.bit_position],
                                   f.var, r.value, session_time, now),
                      payload_bytes, i + 1, session_time, now)

\* the length test made on the hex string instead of the bytes
payload_too_short_hex_length(payload_hex, payload_bytes) == Len(payload_hex.val) < 30

\* line 142: the length test on the converted bytes
payload_too_short(payload_hex, payload_bytes) == Len(payload_bytes) < 30

\* the body of the try block (lines 139-340): exc is the exception that
\* leaves it, returned whether a return statement inside it ran
decode_try_body(payload_hex, session_time, now) ==
    LET st0 == [result |-> InitialResult, exc |-> None, returned |-> FALSE,
                bit_position |-> 0, year |-> 0, month |-> 0, day |-> 0, hour |-> 0]
        hx  == bytes_fromhex(payload_hex)
    IN  IF hx.exc # None THEN [st0 EXCEPT !.exc = hx.exc]
        ELSE IF payload_too_short(payload_hex, hx.value)
        THEN [st0 EXCEPT !.result.decode_error =
                            Some("Payload too short: " \o ToString(Len(hx.value))
                                 \o " bytes (expected minimum 30)"),
                         !.returned = TRUE]
        ELSE LET st == decode_green_block(st0, hx.value, 1, session_time, now)
             IN  IF st.returned \/ st.exc # None THEN st
                 ELSE [st EXCEPT !.result.is_decoded = TRUE]

\* decode_eucaws_payload without the outer except clause
decode_eucaws_payload_no_except(payload_hex, session_time, now) ==
    LET st == decode_try_body(payload_hex, session_time, now)
    IN  [result |-> st.result, raised |-> st.exc, bit_position |-> st.bit_position]

\* decode_eucaws_payload: the try body under "except Exception".
\* raised: an exception reaches the caller; bit_position: reader.get_position()
decode_eucaws_payload(payload_hex, session_time, now) ==
    LET st == decode_try_body(payload_hex, session_time, now)
    IN  IF st.exc # None
        THEN [result |-> [st.result EXCEPT !.decode_error = st.exc],
              raised |-> None, bit_position |-> st.bit_position]
        ELSE [result |-> st.result, raised |-> None, bit_position |-> st.bit_position]

\* decode_eucaws_payload_legacy: data.hex() exists on bytes only
decode_eucaws_payload_legacy(data, session_time, now) ==
    IF data.type # "bytes"
    THEN [result |-> InitialResult,
          raised |-> Some("'" \o data.type \o "' object has no attribute 'hex'"),
          bit_position |-> 0]
    ELSE decode_eucaws_payload(PyStr(bytes_hex(data.val)), session_time, now)

----------------------------------------------------------------------------
(* IridiumSBDParser.  Text decoded from bytes is the sequence of its code  *)
(* points.  Unsigned 32-bit fields are computed for values below 2^31, the *)
(* range the messages below stay in.                                       *)

\* data[lo:hi] for 0 <= lo <= hi <= len(data)
Slice(data, lo, hi) == SubSeq(data, lo + 1, hi)

\* struct.unpack('>H', b)[0]
unpack_H(b) == b[1] * 256 + b[2]
\* struct.unpack('>I', b)[0]
unpack_I(b) == ((b[1] * 256 + b[2]) * 256 + b[3]) * 256 + b[4]
\* struct.unpack('>i', b)[0]
unpack_i(b) ==
    (((IF b[1] >= 128 THEN b[1] - 256 ELSE b[1]) * 256 + b[2]) * 256 + b[3]) * 256 + b[4]

\* b.decode('ascii', errors='ignore'): the bytes below 128
decode_ascii_ignore(b) == SelectSeq(b, LAMBDA x : x < 128)

StripSet == {9, 10, 11, 12, 13, 28, 29, 30, 31, 32}

RECURSIVE lstrip(_)
lstrip(t) == IF t # <<>> /\ Head(t) \in StripSet THEN lstrip(Tail(t)) ELSE t
RECURSIVE rstrip(_)
rstrip(t) ==
    IF t # <<>> /\ t[Len(t)] \in StripSet THEN rstrip(SubSeq(t, 1, Len(t) - 1)) ELSE t
\* str.strip()
strip(t) == rstrip(lstrip(t))

\* str.isprintable() of ASCII text
isprintable(t) == \A n \in 1..Len(t) : t[n] >= 32 /\ t[n] <= 126

\* datetime.fromtimestamp(t, tz=timezone.utc) for t >= 0
fromtimestamp(t) ==
    LET days == t \div 86400
        rem  == t % 86400
        z    == days + 719468
        era  == z \div 146097
        doe  == z - era * 146097
        yoe  == (doe - doe \div 1460 + doe \div 36524 - doe \div 146096) \div 365
        doy  == doe - (365 * yoe + yoe \div 4 - yoe \div 100)
        mp   == (5 * doy + 2) \div 153
        d    == doy - (153 * mp + 2) \div 5 + 1
        m    == IF mp < 10 THEN mp + 3 ELSE mp - 9
        y    == yoe + era * 400 + (IF m <= 2 THEN 1 ELSE 0)
    IN  [year |-> y, month |-> m, day |-> d,
         hour |-> rem \div 3600, minute |-> (rem % 3600) \div 60, second |-> rem % 60]

\* parsed_data = {}: a key that is not set reads as None
EmptyParsed ==
    [ protocol_revision |-> None, message_length |-> None,
      cdr_reference |-> None, imei |-> None, session_status |-> None,
      momsn |-> None, mtmsn |-> None, session_time |-> None,
      payload_hex |-> None, decoded_payload |-> None,
      latitude |-> None, longitude |-> None, cep_radius |-> None,
      confirmation_status |-> None, is_parsed |-> None, parse_error |-> None ]

_parse_header(parsed_data, data) ==
    IF Len(data) < 28 THEN parsed_data
    ELSE [parsed_data EXCEPT
            !.cdr_reference = Some(unpack_I(Slice(data, 0, 4))),
            !.imei = Some(strip(decode_ascii_ignore(Slice(data, 4, 19)))),
            !.session_status = Some(data[20]),
            !.momsn = Some(unpack_H(Slice(data, 20, 22))),
            !.mtmsn = Some(unpack_H(Slice(data, 22, 24))),
            !.session_time = Some(fromtimestamp(unpack_I(Slice(data, 24, 28))))]

_parse_payload(parsed_data, data) ==
    LET decoded == decode_ascii_ignore(data)
    IN  [parsed_data EXCEPT
            !.payload_hex = Some(bytes_hex(data)),
            !.decoded_payload =
                IF isprintable(decoded) THEN Some([text |-> "", codes |-> decoded])
                ELSE Some([text |-> "Binary data (" \o ToString(Len(data)) \o " bytes)",
                           codes |-> <<>>])]

_parse_location(parsed_data, data) ==
    IF Len(data) < 11 THEN parsed_data
    ELSE [parsed_data EXCEPT
            !.latitude = Some(Dec(unpack_i(Slice(data, 1, 5)), 6)),
            !.longitude = Some(Dec(unpack_i(Slice(data, 5, 9)), 6)),
            !.cep_radius = Some(unpack_H(Slice(data, 9, 11)))]

_parse_confirmation(parsed_data, data) ==
    IF Len(data) < 1 THEN parsed_data
    ELSE [parsed_data EXCEPT !.confirmation_status = Some(data[1])]

IE_HEADER == 1
IE_PAYLOAD == 2
IE_LOCATION == 3
IE_CONFIRMATION == 5

\* the parser method that handles an element of the given type, if any
parse_ie(parsed_data, ie_id, ie_data) ==
    CASE ie_id = IE_HEADER -> _parse_header(parsed_data, ie_data)
      [] ie_id = IE_PAYLOAD -> _parse_payload(parsed_data, ie_data)
      [] ie_id = IE_LOCATION -> _parse_location(parsed_data, ie_data)
      [] ie_id = IE_CONFIRMATION -> _parse_confirmation(parsed_data, ie_data)
      [] OTHER -> parsed_data

RECURSIVE parse_elements_takes_partial(_, _, _)
\* the loop with an overrunning element parsed from the bytes that are there
parse_elements_takes_partial(data, position, parsed_data) ==
    IF ~(position < Len(data)) THEN [parsed_data |-> parsed_data, position |-> position]
    ELSE IF position + 3 > Len(data)
    THEN [parsed_data |-> parsed_data, position |-> position]
    ELSE LET ie_id     == data[position + 1]
             ie_length == unpack_H(Slice(data, position + 1, position + 3))
             start     == position + 3
             stop      == IF start + ie_length > Len(data) THEN Len(data)
                          ELSE start + ie_length
         IN  parse_elements_takes_partial(
                 data, stop, parse_ie(parsed_data, ie_id, Slice(data, start, stop)))

RECURSIVE parse_elements_stops_at_unknown(_, _, _)
\* the loop with a break on an element type it does not know
parse_elements_stops_at_unknown(data, position, parsed_data) ==
    IF ~(position < Len(data)) THEN [parsed_data |-> parsed_data, position |-> position]
    ELSE IF position + 3 > Len(data)
    THEN [parsed_data |-> parsed_data, position |-> position]
    ELSE LET ie_id     == data[position + 1]
             ie_length == unpack_H(Slice(data, position + 1, position + 3))
             start     == position + 3
         IN  IF start + ie_length > Len(data)
             THEN [parsed_data |-> parsed_data, position |-> start]
             ELSE IF ie_id \notin {IE_HEADER, IE_PAYLOAD, IE_LOCATION, IE_CONFIRMATION}
             THEN [parsed_data |-> parsed_data, position |-> start + ie_length]
             ELSE parse_elements_stops_at_unknown(
                      data, start + ie_length,
                      parse_ie(parsed_data, ie_id, Slice(data, start, start + ie_length)))

RECURSIVE parse_elements(_, _, _)
\* the while loop of parse (lines 45-67) from the given position on: the
\* fields collected and the position the loop ends at
parse_elements(data, position, parsed_data) ==
    IF ~(position < Len(data)) THEN [parsed_data |-> parsed_data, position |-> position]
    ELSE IF position + 3 > Len(data)
    THEN [parsed_data |-> parsed_data, position |-> position]
    ELSE LET ie_id     == data[position + 1]
             ie_length == unpack_H(Slice(data, position + 1, position + 3))
             start     == position + 3
         IN  IF start + ie_length > Len(data)
             THEN [parsed_data |-> parsed_data, position |-> start]
             ELSE parse_elements(
                      data, start + ie_length,
                      parse_ie(parsed_data, ie_id, Slice(data, start, start + ie_length)))

\* the try block of parse (lines 29-70): the fields collected, the position
\* reached and the exception raised, if any
parse_try(data) ==
    IF Len(data) < 3
    THEN [parsed_data |-> EmptyParsed, position |-> 0, exc |-> Some("Message too short")]
    ELSE The({ [parsed_data |-> [scan.parsed_data EXCEPT !.is_parsed = Some(TRUE)],
                position |-> scan.position, exc |-> None] :
               scan \in { parse_elements(data, 3,
                              [EmptyParsed EXCEPT
                                  !.protocol_revision = Some(data[1]),
                                  !.message_length = Some(unpack_H(Slice(data, 1, 3)))]) } })

\* parse with the except clause left out
parse_outcome_no_except(data) ==
    The({ [result |-> t.parsed_data, position |-> t.position, raised |-> t.exc] :
          t \in {parse_try(data)} })

\* IridiumSBDParser(data).parse() as a call: what it returns, where the
\* parser stands, and what it raises to its caller
parse_outcome(data) ==
    The({ IF t.exc # None
          THEN [result |-> [t.parsed_data EXCEPT !.is_parsed = Some(FALSE),
                                                 !.parse_error = t.exc],
                position |-> t.position, raised |-> None]
          ELSE [result |-> t.parsed_data, position |-> t.position, raised |-> None] :
          t \in {parse_try(data)} })

\* IridiumSBDParser(data).parse()
parse(data) == parse_outcome(data).result

parse_iridium_message(data) == parse(data)

RECURSIVE digits_run(_, _)
\* the number of digits at the start of text t from index n (1-based) on
digits_run(t, n) ==
    IF n <= Len(t) /\ t[n] >= 48 /\ t[n] <= 57 THEN 1 + digits_run(t, n + 1) ELSE 0

\* extract_imei_simple: re.search(r'\d{15}', text), the leftmost match
extract_imei_simple(data) ==
    LET text == decode_ascii_ignore(data)
        hits == {n \in 1..Len(text) : digits_run(text, n) >= 15}
    IN  IF hits = {} THEN None
        ELSE LET first == CHOOSE n \in hits : \A k \in hits : n <= k
             IN  Some(SubSeq(text, first, first + 14))

----------------------------------------------------------------------------
(* SatelliteSocketServer.handle_client and the reprocess_eucaws command     *)

\* truth value of an optional str or bytes: None and the empty one are false
truthy_seq(o) == o # None /\ Val(o) # <<>>
\* truth value of an optional number: None and zero are false
truthy_num(o) == o # None /\ Val(o) # 0
\* a or b, for optional numbers
py_or(a, b) == IF truthy_num(a) THEN a ELSE b

\* {} and d.get(key, default)
EmptyDict == <<>>
get(d, key, default) == IF key \in DOMAIN d THEN d[key] ELSE default

\* continuation bytes a UTF-8 lead byte asks for, 0 for a byte that is no lead
utf8_need(c) ==
    IF c >= 194 /\ c <= 223 THEN 1
    ELSE IF c >= 224 /\ c <= 239 THEN 2
    ELSE IF c >= 240 /\ c <= 244 THEN 3 ELSE 0

\* b[i + k] is a well-formed k-th continuation of the lead byte b[i]
utf8_cont(b, i, k) ==
    /\ i + k <= Len(b)
    /\ b[i + k] >= (IF k = 1 THEN (IF b[i] = 224 THEN 160 ELSE IF b[i] = 240 THEN 144 ELSE 128)
                    ELSE 128)
    /\ b[i + k] <= (IF k = 1 THEN (IF b[i] = 237 THEN 159 ELSE IF b[i] = 244 THEN 143 ELSE 191)
                    ELSE 191)

\* the well-formed continuation bytes that follow b[i] as its sequence
utf8_good(b, i) ==
    IF utf8_need(b[i]) >= 1 /\ utf8_cont(b, i, 1)
    THEN IF utf8_need(b[i]) >= 2 /\ utf8_cont(b, i, 2)
         THEN IF utf8_need(b[i]) >= 3 /\ utf8_cont(b, i, 3) THEN 3 ELSE 2
         ELSE 1
    ELSE 0

\* the character the decoder gives for the bytes that start at b[i]: the code
\* point of a complete sequence, U+FFFD for an ill-formed or cut one
utf8_point(b, i) ==
    IF b[i] < 128 THEN b[i]
    ELSE IF utf8_need(b[i]) = 0 \/ utf8_good(b, i) < utf8_need(b[i]) THEN 65533
    ELSE IF utf8_need(b[i]) = 1 THEN (b[i] - 192) * 64 + (b[i + 1] - 128)
    ELSE IF utf8_need(b[i]) = 2
    THEN ((b[i] - 224) * 64 + (b[i + 1] - 128)) * 64 + (b[i + 2] - 128)
    ELSE (((b[i] - 240) * 64 + (b[i + 1] - 128)) * 64 + (b[i + 2] - 128)) * 64
         + (b[i + 3] - 128)

\* the positions where the decoder starts a character: every byte that no
\* lead byte before it took as a continuation
utf8_starts(b) ==
    SelectSeq([i \in 1..Len(b) |-> i],
              LAMBDA i : ~\E k \in 1..3 : i - k >= 1 /\ utf8_good(b, i - k) >= k)

\* data.decode('utf-8', errors='replace'), as code points
decode_utf8_replace(data) ==
    The({ [k \in 1..Len(starts) |-> utf8_point(data, starts[k])] :
           starts \in {utf8_starts(data)} })

\* what a handle_client call leaves behind when it stores nothing
NoEffect(log) == [created |-> <<>>, codec_calls |-> <<>>, publish |-> <<>>, log |-> log]

\* a call of decode_eucaws_payload as the caller wrote it
CodecCall(payload, fallback, now) ==
    [payload_hex |-> payload, session_time |-> fallback, now |-> now,
     ret |-> decode_eucaws_payload(payload, fallback, now)]

\* lines 64-65: the IMEI pattern search when the envelope gave no IMEI
imei_fallback(parsed, data) ==
    IF ~truthy_seq(parsed.imei) THEN [parsed EXCEPT !.imei = extract_imei_simple(data)]
    ELSE parsed

\* lines 71-81: eucaws_payload, None when there is no candidate
select_eucaws_payload(parsed, data) ==
    IF truthy_seq(parsed.payload_hex)
    THEN LET unhex == bytes_fromhex(PyStr(Val(parsed.payload_hex)))
         IN  [exc |-> unhex.exc, eucaws_payload |-> Some(unhex.value)]
    ELSE IF Len(data) = 30 THEN [exc |-> None, eucaws_payload |-> Some(data)]
    ELSE [exc |-> None, eucaws_payload |-> None]

\* lines 84-86: the codec runs on a candidate of 30 bytes, and the payload
\* bytes are the only argument of the call
run_codec(eucaws_payload, now) ==
    IF truthy_seq(eucaws_payload) /\ Len(Val(eucaws_payload)) = 30
    THEN <<CodecCall(PyBytes(Val(eucaws_payload)), None, now)>>
    ELSE <<>>

\* eucaws_data after lines 70-100, given the codec calls made
eucaws_data_of(calls) ==
    IF calls # <<>> /\ calls[1].ret.raised = None THEN calls[1].ret.result ELSE EmptyDict

\* the record with the reception time put where the envelope has no session time
ingestion_record_fills_session_time(data, address, now, parsed, eucaws_data) ==
    [ source_ip |-> address[1], source_port |-> address[2],
      payload |-> decode_utf8_replace(data), payload_size |-> Len(data),
      timestamp |-> now,
      imei |-> parsed.imei,
      message_sequence |-> parsed.cdr_reference,
      session_status |-> parsed.session_status,
      momsn |-> parsed.momsn, mtmsn |-> parsed.mtmsn,
      session_time |-> IF parsed.session_time = None THEN Some(now)
                       ELSE parsed.session_time,
      latitude |-> py_or(parsed.latitude, get(eucaws_data, "latitude", None)),
      longitude |-> py_or(parsed.longitude, get(eucaws_data, "longitude", None)),
      cep_radius |-> parsed.cep_radius,
      decoded_payload |-> parsed.decoded_payload,
      payload_hex |-> parsed.payload_hex,
      is_parsed |-> IF parsed.is_parsed = None THEN FALSE ELSE Val(parsed.is_parsed),
      parse_error |-> parsed.parse_error,
      eucaws_timestamp |-> get(eucaws_data, "timestamp", None),
      wind_speed_ms |-> get(eucaws_data, "wind_speed_ms", None),
      wind_speed_knots |-> get(eucaws_data, "wind_speed_knots", None),
      wind_direction |-> get(eucaws_data, "wind_direction", None),
      air_temperature |-> get(eucaws_data, "air_temperature", None),
      sea_temperature |-> get(eucaws_data, "sea_temperature", None),
      barometric_pressure |-> get(eucaws_data, "barometric_pressure", None),
      relative_humidity |-> get(eucaws_data, "relative_humidity", None),
      is_eucaws_decoded |-> get(eucaws_data, "is_decoded", FALSE),
      eucaws_decode_error |-> get(eucaws_data, "decode_error", None) ]

\* lines 103-134: the keyword arguments of SatelliteData.objects.create
ingestion_record(data, address, now, parsed, eucaws_data) ==
    [ source_ip |-> address[1], source_port |-> address[2],
      payload |-> decode_utf8_replace(data), payload_size |-> Len(data),
      timestamp |-> now,
      imei |-> parsed.imei,
      message_sequence |-> parsed.cdr_reference,
      session_status |-> parsed.session_status,
      momsn |-> parsed.momsn, mtmsn |-> parsed.mtmsn,
      session_time |-> parsed.session_time,
      latitude |-> py_or(parsed.latitude, get(eucaws_data, "latitude", None)),
      longitude |-> py_or(parsed.longitude, get(eucaws_data, "longitude", None)),
      cep_radius |-> parsed.cep_radius,
      decoded_payload |-> parsed.decoded_payload,
      payload_hex |-> parsed.payload_hex,
      is_parsed |-> IF parsed.is_parsed = None THEN FALSE ELSE Val(parsed.is_parsed),
      parse_error |-> parsed.parse_error,
      eucaws_timestamp |-> get(eucaws_data, "timestamp", None),
      wind_speed_ms |-> get(eucaws_data, "wind_speed_ms", None),
      wind_speed_knots |-> get(eucaws_data, "wind_speed_knots", None),
      wind_direction |-> get(eucaws_data, "wind_direction", None),
      air_temperature |-> get(eucaws_data, "air_temperature", None),
      sea_temperature |-> get(eucaws_data, "sea_temperature", None),
      barometric_pressure |-> get(eucaws_data, "barometric_pressure", None),
      relative_humidity |-> get(eucaws_data, "relative_humidity", None),
      is_eucaws_decoded |-> get(eucaws_data, "is_decoded", FALSE),
      eucaws_decode_error |-> get(eucaws_data, "decode_error", None) ]

\* lines 83-134 with a publish that is requested whatever the codec said
handle_decoded_publishes_undecoded(data, address, now, create_raises, publish_outcome, parsed, calls, eucaws_data) ==
    LET publish == /\ calls # <<>>
                   /\ calls[1].ret.raised = None
                   /\ truthy_seq(parsed.imei)
    IN  [ created |-> IF create_raises THEN <<>>
                      ELSE <<ingestion_record(data, address, now, parsed, eucaws_data)>>,
          codec_calls |-> calls,
          publish |-> IF publish THEN <<[imei |-> Val(parsed.imei), data |-> eucaws_data]>>
                      ELSE <<>>,
          log |-> <<"recv", "parse">>
                  \o (IF calls # <<>> THEN <<"decode">> ELSE <<>>)
                  \o (IF publish THEN <<"publish">> ELSE <<>>)
                  \o (IF publish /\ publish_outcome = "raises"
                      THEN <<"mqtt_error">> ELSE <<>>)
                  \o <<"create">>
                  \o (IF create_raises THEN <<"error">> ELSE <<>>)
                  \o <<"close">> ]

\* lines 83-134 with no except clause between the publish call and the
\* handler's own: an exception of the publisher ends the handler
handle_decoded_publish_error_escapes(data, address, now, create_raises, publish_outcome, parsed, calls, eucaws_data) ==
    LET publish == /\ calls # <<>>
                   /\ calls[1].ret.raised = None
                   /\ get(eucaws_data, "is_decoded", FALSE)
                   /\ truthy_seq(parsed.imei)
        escapes == publish /\ publish_outcome = "raises"
    IN  [ created |-> IF create_raises \/ escapes THEN <<>>
                      ELSE <<ingestion_record(data, address, now, parsed, eucaws_data)>>,
          codec_calls |-> calls,
          publish |-> IF publish THEN <<[imei |-> Val(parsed.imei), data |-> eucaws_data]>>
                      ELSE <<>>,
          log |-> <<"recv", "parse">>
                  \o (IF calls # <<>> THEN <<"decode">> ELSE <<>>)
                  \o (IF publish THEN <<"publish">> ELSE <<>>)
                  \o (IF escapes THEN <<"error">>
                      ELSE <<"create">> \o (IF create_raises THEN <<"error">> ELSE <<>>))
                  \o <<"close">> ]

\* lines 83-134 once the codec calls are made: the publish request, if any,
\* comes before objects.create; what the publisher returns is dropped, and
\* what it raises is caught and logged at lines 94-95
handle_decoded(data, address, now, create_raises, publish_outcome, parsed, calls, eucaws_data) ==
    LET publish == /\ calls # <<>>
                   /\ calls[1].ret.raised = None
                   /\ get(eucaws_data, "is_decoded", FALSE)
                   /\ truthy_seq(parsed.imei)
    IN  [ created |-> IF create_raises THEN <<>>
                      ELSE <<ingestion_record(data, address, now, parsed, eucaws_data)>>,
          codec_calls |-> calls,
          publish |-> IF publish THEN <<[imei |-> Val(parsed.imei), data |-> eucaws_data]>>
                      ELSE <<>>,
          log |-> <<"recv", "parse">>
                  \o (IF calls # <<>> THEN <<"decode">> ELSE <<>>)
                  \o (IF publish THEN <<"publish">> ELSE <<>>)
                  \o (IF publish /\ publish_outcome = "raises"
                      THEN <<"mqtt_error">> ELSE <<>>)
                  \o <<"create">>
                  \o (IF create_raises THEN <<"error">> ELSE <<>>)
                  \o <<"close">> ]

\* lines 83-134, given the codec calls made
handle_calls(data, address, now, create_raises, publish_outcome, parsed, calls) ==
    The({ handle_decoded(data, address, now, create_raises, publish_outcome, parsed, calls, eucaws_data) :
           eucaws_data \in {eucaws_data_of(calls)} })

\* lines 67-134 for the parsed message and the candidate selected
handle_selected(data, address, now, create_raises, publish_outcome, parsed, selected) ==
    IF selected.exc # None THEN NoEffect(<<"recv", "parse", "error", "close">>)
    ELSE The({ handle_calls(data, address, now, create_raises, publish_outcome, parsed, calls) :
                calls \in {run_codec(selected.eucaws_payload, now)} })

\* lines 67-134 for the parsed message
handle_parsed(data, address, now, create_raises, publish_outcome, parsed) ==
    The({ handle_selected(data, address, now, create_raises, publish_outcome, parsed, selected) :
           selected \in {select_eucaws_payload(parsed, data)} })

\* handle_client with no test of what recv returned before the message is
\* parsed and stored
handle_client_stores_empty(rx, address, now, create_raises, publish_outcome) ==
    IF rx.exc # None THEN NoEffect(<<"recv", "error", "close">>)
    ELSE The({ The({ handle_parsed(rx.data, address, now, create_raises, publish_outcome, parsed) :
                     parsed \in {imei_fallback(parsed0, rx.data)} }) :
               parsed0 \in {parse_iridium_message(rx.data)} })

\* handle_client(client_socket, address), given what recv returns, whether
\* objects.create raises, and what the publisher does when it is asked
handle_client(rx, address, now, create_raises, publish_outcome) ==
    IF rx.exc # None THEN NoEffect(<<"recv", "error", "close">>)
    ELSE IF rx.data = <<>> THEN NoEffect(<<"recv", "close">>)
    ELSE The({ The({ handle_parsed(rx.data, address, now, create_raises, publish_outcome, parsed) :
                     parsed \in {imei_fallback(parsed0, rx.data)} }) :
               parsed0 \in {parse_iridium_message(rx.data)} })

\* decode_eucaws_payload returns is_decoded False for every bytes object,
\* which is what the handler passes (line 86), so that lines 89-97 never run
\* on a decoded Observation.  To exercise those lines on every return value
\* of the codec, handle_observed is handle_client with the codec's return
\* value for the candidate's hex string when as_hex is set; with as_hex not
\* set it is handle_client.
handle_observed(rx, address, now, create_raises, publish_outcome, as_hex) ==
    IF ~as_hex \/ rx.exc # None \/ rx.data = <<>>
    THEN handle_client(rx, address, now, create_raises, publish_outcome)
    ELSE The({ The({ handle_calls(
                         rx.data, address, now, create_raises, publish_outcome, parsed,
                         IF run_codec(selected.eucaws_payload, now) = <<>> THEN <<>>
                         ELSE <<CodecCall(PyStr(bytes_hex(Val(selected.eucaws_payload))),
                                          None, now)>>) :
                     selected \in {select_eucaws_payload(parsed, rx.data)} }) :
               parsed \in {imei_fallback(parse_iridium_message(rx.data), rx.data)} })

\* the rows of the queryset of Command.handle, as positions in db, newest first
RECURSIVE newest_first(_, _, _)
newest_first(db, force, n) ==
    IF n = 0 THEN <<>>
    ELSE (IF db[n].payload_hex # None /\ (force \/ ~db[n].is_eucaws_decoded)
          THEN <<n>> ELSE <<>>)
         \o newest_first(db, force, n - 1)

limited(rows, limit) ==
    IF truthy_num(limit) /\ Val(limit) < Len(rows) THEN SubSeq(rows, 1, Val(limit)) ELSE rows

reprocess_queryset(db, limit, force) == limited(newest_first(db, force, Len(db)), limit)

\* lines 83-94: the row after a successful decode
record_decoded(record, eucaws_data) ==
    [record EXCEPT
        !.eucaws_timestamp = get(eucaws_data, "timestamp", None),
        !.wind_speed_ms = get(eucaws_data, "wind_speed_ms", None),
        !.wind_speed_knots = get(eucaws_data, "wind_speed_knots", None),
        !.wind_direction = get(eucaws_data, "wind_direction", None),
        !.air_temperature = get(eucaws_data, "air_temperature", None),
        !.sea_temperature = get(eucaws_data, "sea_temperature", None),
        !.barometric_pressure = get(eucaws_data, "barometric_pressure", None),
        !.relative_humidity = get(eucaws_data, "relative_humidity", None),
        !.is_eucaws_decoded = TRUE,
        !.eucaws_decode_error = None]

\* lines 116-118: the row after a failed decode
record_failed(record, eucaws_data) ==
    [record EXCEPT
        !.is_eucaws_decoded = FALSE,
        !.eucaws_decode_error = get(eucaws_data, "decode_error", Some("Unknown error"))]

\* lines 80-126 of the loop body, given the codec call made
reprocess_decoded(st, n, dry_run, save_raises, call) ==
    IF call.ret.raised # None THEN [st EXCEPT !.codec_calls = Append(@, call),
                                              !.error_count = @ + 1]
    ELSE IF get(call.ret.result, "is_decoded", FALSE)
    THEN [st EXCEPT !.codec_calls = Append(@, call),
                    !.saves = @ + (IF dry_run THEN 0 ELSE 1),
                    !.db[n] = IF dry_run \/ save_raises THEN @
                              ELSE record_decoded(@, call.ret.result),
                    !.success_count = @ + (IF ~dry_run /\ save_raises THEN 0 ELSE 1),
                    !.error_count = @ + (IF ~dry_run /\ save_raises THEN 1 ELSE 0)]
    ELSE [st EXCEPT !.codec_calls = Append(@, call),
                    !.saves = @ + (IF dry_run THEN 0 ELSE 1),
                    !.db[n] = IF dry_run \/ save_raises THEN @
                              ELSE record_failed(@, call.ret.result),
                    !.error_count = @ + 1]

\* lines 71-80 of the loop body, given bytes.fromhex(record.payload_hex): the
\* codec is called with the payload bytes and the row's session time
reprocess_payload(st, n, dry_run, save_raises, now, unhex) ==
    IF unhex.exc # None THEN [st EXCEPT !.error_count = @ + 1]
    ELSE IF Len(unhex.value) # 30 THEN [st EXCEPT !.skipped_count = @ + 1]
    ELSE The({ reprocess_decoded(st, n, dry_run, save_raises, call) :
                call \in {CodecCall(PyBytes(unhex.value), st.db[n].session_time, now)} })

\* one turn of the for loop of Command.handle, on row n
reprocess_record(st, n, dry_run, save_raises, now) ==
    IF ~truthy_seq(st.db[n].payload_hex) THEN [st EXCEPT !.skipped_count = @ + 1]
    ELSE The({ reprocess_payload(st, n, dry_run, save_raises, now, unhex) :
                unhex \in {bytes_fromhex(PyStr(Val(st.db[n].payload_hex)))} })

RECURSIVE reprocess_loop(_, _, _, _, _, _)
\* the for loop of Command.handle from the i-th row of the queryset on
reprocess_loop(st, queryset, i, dry_run, save_raises, now) ==
    IF i > Len(queryset) THEN st
    ELSE The({ reprocess_loop(done, queryset, i + 1, dry_run, save_raises, now) :
                done \in {reprocess_record(st, queryset[i], dry_run, save_raises, now)} })

\* Command.handle(limit=..., dry_run=..., force=...) on the rows of queryset
reprocess_rows(db, queryset, options, save_raises, now) ==
    reprocess_loop([db |-> db, codec_calls |-> <<>>, queryset |-> queryset, saves |-> 0,
                    success_count |-> 0, error_count |-> 0, skipped_count |-> 0],
                   queryset, 1, options.dry_run, save_raises, now)

\* Command.handle(limit=..., dry_run=..., force=...)
reprocess_eucaws(db, options, save_raises, now) ==
    The({ reprocess_rows(db, queryset, options, save_raises, now) :
           queryset \in {reprocess_queryset(db, options.limit, options.force)} })

----------------------------------------------------------------------------
(* The payloads and arguments the codec is exercised on *)

\* the example payload of the decoder's test block
test_payload ==
    << "6","4","8","0","0","3","f","b","4","c","e","0","6","b","0","1","b","f","d","2","1","f",
       "5","d","d","9","b","e","e","f","9","b","f","f","f","f","f","f","f","f","f","f","f","f",
       "9","7","e","d","5","f","f","f","c","0","f","1","f","e","0","0" >>

\* bytes beyond the 30 of the green block that a payload may carry
MaxExtraBytes == 2
\* fields of up to this many bits take every raw value, wider ones the
\* values in WideSample
FullRangeBits == 7

RECURSIVE FieldOffsetSum(_)
FieldOffsetSum(i) == IF i = 1 THEN 0 ELSE FieldOffsetSum(i - 1) + GreenBlock[i - 1].bits

\* the bit position at which each read starts
FieldOffsets == [i \in 1..Len(GreenBlock) |-> FieldOffsetSum(i)]

FieldOffset(i) == FieldOffsets[i]

FieldIndexes ==
    [var \in {GreenBlock[i].var : i \in 1..Len(GreenBlock)} |->
        CHOOSE i \in 1..Len(GreenBlock) : GreenBlock[i].var = var]

FieldIndex(var) == FieldIndexes[var]

\* bit j (0-based, MSB first) of a byte string
BitAt(b, j) == (b[(j \div 8) + 1] \div (2^(7 - (j % 8)))) % 2

RECURSIVE BitsFrom(_, _, _, _)
BitsFrom(b, j, k, acc) == IF k = 0 THEN acc ELSE BitsFrom(b, j + 1, k - 1, acc * 2 + BitAt(b, j))

\* the unsigned number held by the w bits of b from bit off on
BitsAt(b, off, w) == BitsFrom(b, off, w, 0)

\* byte n (1-based) of b with the w bits from bit off on replaced by v
WithBitsByte(b, off, w, v, n) ==
    LET bit(k) == LET j == (n - 1) * 8 + k
                  IN  IF j >= off /\ j < off + w
                      THEN (v \div (2^(off + w - 1 - j))) % 2
                      ELSE BitAt(b, j)
    IN  bit(0) * 128 + bit(1) * 64 + bit(2) * 32 + bit(3) * 16
        + bit(4) * 8 + bit(5) * 4 + bit(6) * 2 + bit(7)

\* b with the w bits from bit off on replaced by the unsigned number v
WithBits(b, off, w, v) ==
    [n \in 1..Len(b) |->
        IF n * 8 <= off \/ (n - 1) * 8 >= off + w THEN b[n]
        ELSE WithBitsByte(b, off, w, v, n)]

\* b with the bits of read number i replaced by v
WithField(b, i, v) == WithBits(b, FieldOffset(i), GreenBlock[i].bits, v)

RawOf(b, var) == BitsAt(b, FieldOffset(FieldIndex(var)), GreenBlock[FieldIndex(var)].bits)

WideSample(w) ==
    {0, 1, 2, 2^(w - 1) - 1, 2^(w - 1), 2^(w - 1) + 1, 2^w - 3, 2^w - 2, 2^w - 1}

RawSample(w) == IF w <= FullRangeBits THEN 0..(2^w - 1) ELSE WideSample(w)

AllOnes  == WithField([n \in 1..30 |-> 255], 1, 100)
AllZeros == WithField([n \in 1..30 |-> 0], 1, 100)
Reference == bytes_fromhex(PyStr(test_payload)).value

BasePayloads == {Reference, AllOnes, AllZeros}

\* a base payload with one field swept over its sample
FieldSweep ==
    {WithField(b, i, v) : b \in BasePayloads, i \in {1}, v \in {0, 99, 101, 255}}
    \cup UNION {{WithField(b, i, v) : v \in RawSample(GreenBlock[i].bits)} :
                b \in BasePayloads, i \in 2..Len(GreenBlock)}


\* b with the five calendar fields (28 adjacent bits) replaced
WithDate(b, y, mo, d, h, mi) ==
    WithBits(b, FieldOffset(FieldIndex("year_raw")), 28,
             (((y * 16 + mo) * 64 + d) * 32 + h) * 64 + mi)

\* calendar fields around every validity limit, leap and non-leap years
DateSweep ==
    {WithDate(Reference, y, mo, d, h, mi) :
        y \in {0, 25, 100}, mo \in {0, 1, 2, 4, 12, 13},
        d \in {0, 1, 28, 29, 30, 31, 32}, h \in {23, 24}, mi \in {59, 60}}

\* payloads of every length from 0 to 30 + MaxExtraBytes
LengthSweep ==
    {SubSeq(b, 1, k) : b \in BasePayloads, k \in 0..29}
    \cup {b \o [n \in 1..k |-> x] : b \in BasePayloads, k \in 1..MaxExtraBytes, x \in {0, 255}}

\* strings that are not plain lower-case hex, and arguments that are no string
OddStrings ==
    { SubSeq(test_payload, 1, 59),
      <<"6", "4", " ", "0", "g">>,
      <<"6", " ", "4">>,
      <<"z">>,
      <<>>,
      <<" ", "6", "4", "\n", "0", "0", " ">>,
      [n \in 1..60 |-> IF test_payload[n] = "f" THEN "F" ELSE test_payload[n]],
      SubSeq(test_payload, 1, 2) \o <<" ">> \o SubSeq(test_payload, 3, 60) }

\* the bytes a string stands for, None when it is not hex
WireOf(s) ==
    LET hx == bytes_fromhex(PyStr(s)) IN IF hx.exc = None THEN Some(hx.value) ELSE None

\* arg: the argument handed to the codec; wire: the payload bytes it stands for
CodecInputs ==
    {[arg |-> PyStr(bytes_hex(b)), wire |-> Some(b)] :
        b \in FieldSweep \cup DateSweep \cup LengthSweep}
    \cup {[arg |-> PyStr(s), wire |-> WireOf(s)] : s \in OddStrings}
    \cup {[arg |-> PyBytes(b), wire |-> Some(b)] : b \in BasePayloads \cup LengthSweep}
    \cup {[arg |-> PyNone, wire |-> None]}

\* the envelope's session time and the wall clock at the time of the call
SessionTimeSample ==
    [year |-> 2025, month |-> 12, day |-> 3, hour |-> 11, minute |-> 2, second |-> 41]
ClockSample ==
    [year |-> 2026, month |-> 1, day |-> 9, hour |-> 7, minute |-> 30, second |-> 5]

----------------------------------------------------------------------------
(* The messages a peer delivers to the listener *)

U16(n) == <<n \div 256, n % 256>>
\* an information element: type, length, body
IE(ie_id, body) == <<ie_id>> \o U16(Len(body)) \o body
\* a DirectIP message: protocol revision 1, overall length, elements
Envelope(elements) == <<1>> \o U16(Len(elements)) \o elements

\* "300234010753370"
ImeiSample == <<51, 48, 48, 50, 51, 52, 48, 49, 48, 55, 53, 51, 51, 55, 48>>
BlankImei == [n \in 1..15 |-> 32]
\* CDR reference, IMEI, status 0, MOMSN 7, MTMSN 0, session time 1764759761
\* (SessionTimeSample)
HeaderBody(imei) ==
    <<0, 18, 214, 135>> \o imei \o <<0>> \o <<0, 7>> \o <<0, 0>> \o <<105, 48, 24, 209>>

HeaderSample ==
    { <<>>,
      IE(IE_HEADER, HeaderBody(ImeiSample)),
      IE(IE_HEADER, HeaderBody(BlankImei)),
      IE(IE_HEADER, SubSeq(HeaderBody(ImeiSample), 1, 27)) }

\* format 100 with 30 February 2025 23:59 in the calendar bits
InvalidDate == WithDate(Reference, 25, 2, 30, 23, 59)

\* the reference payload with a true wind direction of 270 degrees (dd = 54)
WindSample == WithField(Reference, 18, 54)

PayloadSample ==
    { <<>> }
    \cup { IE(IE_PAYLOAD, b) :
             b \in { Reference, AllOnes, InvalidDate, WithField(Reference, 1, 101),
                     SubSeq(Reference, 1, 29), Reference \o <<0>>, <<>>,
                     <<72, 69, 76, 76, 79>> } }

\* 53.3 N 6.13 W, the same fix on the equator, and a body one byte short
LocationSample ==
    { IE(IE_LOCATION, <<0, 3, 45, 75, 32, 255, 162, 118, 176, 0, 5>>),
      IE(IE_LOCATION, <<0, 0, 0, 0, 0, 255, 162, 118, 176, 0, 5>>),
      IE(IE_LOCATION, <<0, 3, 45, 75, 32, 255, 162, 118, 176, 0>>) }

\* envelope-less deliveries and buffers that are no complete envelope
RawSample30 ==
    { Reference, AllOnes, InvalidDate, [n \in 1..30 |-> 49] }

BrokenSample ==
    { <<1>>, <<1, 0>>, <<1, 0, 5, 2, 0>>,
      <<1, 0, 40>> \o <<IE_PAYLOAD, 0, 30>> \o SubSeq(Reference, 1, 12),
      Envelope(IE(4, <<9, 9>>) \o IE(IE_PAYLOAD, Reference)),
      Envelope(IE(IE_HEADER, HeaderBody(ImeiSample)) \o IE(IE_CONFIRMATION, <<1>>)),
      <<195, 169, 255>> \o ImeiSample,
      Envelope(IE(IE_PAYLOAD, <<>>) \o IE(4, SubSeq(Reference, 1, 21))) }

Messages ==
    { Envelope(h \o p) : h \in HeaderSample, p \in PayloadSample }
    \cup { Envelope(IE(IE_HEADER, HeaderBody(ImeiSample)) \o IE(IE_PAYLOAD, b) \o l) :
             b \in {Reference, InvalidDate}, l \in LocationSample }
    \cup { Envelope(IE(IE_HEADER, HeaderBody(ImeiSample)) \o IE(IE_PAYLOAD, WindSample)) }
    \cup RawSample30 \cup BrokenSample

\* what recv(4096) gives: a message, nothing (the peer closed), or an error
RecvOutcomes ==
    { [exc |-> None, data |-> m] : m \in Messages \cup {<<>>} }
    \cup { [exc |-> Some("ConnectionResetError"), data |-> <<>>] }

PublishOutcomes == {"True", "False", "raises"}

ClientAddress == <<"203.0.113.7", 40123>>

\* --limit, --dry-run and --force of the reprocessing command
CommandOptions ==
    [limit : {None, Some(1)}, dry_run : BOOLEAN, force : BOOLEAN]

\* connections accepted in one run of the listener
MaxConnections == 1

----------------------------------------------------------------------------
(* State *)

VARIABLES
    payload_hex,    \* codec call: the first argument
    wire,           \* the payload bytes that argument stands for, if any
    session_time,   \* codec call: the fallback time, None when not passed
    now,            \* the wall clock
    pc,             \* "ready" or "listening", then the operation that ran last
    ret,            \* what the codec call gave: result, raised, bit_position
    recv,           \* what recv gave the last handler
    accepted,       \* connections accepted so far
    db,             \* the SatelliteData table, oldest row first
    codec_calls,    \* the codec calls the last operation made
    published,      \* the publish requests the last operation made
    log,            \* the steps the last handler went through
    command,        \* the last run of the reprocessing command
    buffer,         \* parser call: the elements sent and the bytes that arrived
    parsed,         \* what the parser call gave: result, position, raised
    backlog,        \* connections made and not yet accepted, oldest first
    acceptor,       \* the accept loop: where it stands, the connection it holds
    threads,        \* the handler threads started, oldest first
    reader,         \* a BitReader: its data and its bit_position
    reads,          \* the reads made on it: how many, how wide, the last one
    publisher_instance, \* the module global _publisher_instance
    publishers,     \* the EUCAWSMQTTPublisher objects made, oldest first
    callers,        \* the threads in publish_eucaws_to_mqtt: where each stands
    server_instance, \* the module global _server_instance
    server_socket,  \* self.server_socket: "None", or the state of the socket
    running,        \* self.running
    lifecycle       \* where start() and stop_socket_server() stand, and the accepts

codec_vars == <<payload_hex, wire, session_time, ret>>
ingest_vars == <<recv, accepted, db, codec_calls, published, log, command>>
parse_vars == <<buffer, parsed>>
server_vars == <<backlog, acceptor, threads>>
cursor_vars == <<reader, reads>>
publisher_vars == <<publisher_instance, publishers, callers>>
lifecycle_vars == <<server_instance, server_socket, running, lifecycle>>
aux_vars == <<cursor_vars, publisher_vars, lifecycle_vars>>
vars == <<codec_vars, now, pc, ingest_vars, parse_vars, server_vars, aux_vars>>

NoReturn == [result |-> InitialResult, raised |-> None, bit_position |-> 0]
NoRecv == [exc |-> None, data |-> <<>>]

InitIngestVars ==
    /\ recv = NoRecv
    /\ accepted = 0
    /\ db = <<>>
    /\ codec_calls = <<>>
    /\ published = <<>>
    /\ log = <<>>
    /\ command = None

NoBuffer == [elements |-> <<>>, cut |-> 0, data |-> <<>>]
NoParsed == [result |-> EmptyParsed, position |-> 0, raised |-> None]

InitParseVars ==
    /\ buffer = NoBuffer
    /\ parsed = NoParsed

\* the loop of start() at accept, nothing connected, no thread started
InitServerVars ==
    /\ backlog = <<>>
    /\ acceptor = [pc |-> "accept", errors |-> 0, connection |-> None]
    /\ threads = <<>>

NoReads == [count |-> 0, widths |-> 0, failed |-> FALSE, last |-> None]

\* a reader on no data, nothing read
InitCursorVars ==
    /\ reader = [data |-> <<>>, bit_position |-> 0]
    /\ reads = NoReads

\* threads that call publish_eucaws_to_mqtt at the same time
MaxCallers == 2

\* no publisher made yet, no thread in publish_eucaws_to_mqtt
InitPublisherVars ==
    /\ publisher_instance = None
    /\ publishers = <<>>
    /\ callers = [c \in 1..MaxCallers |-> [pc |-> "idle", publisher |-> None, result |-> None]]

\* SatelliteSocketServer not yet made: start_socket_server() not yet called
InitLifecycleVars ==
    /\ server_instance = None
    /\ server_socket = "None"
    /\ running = FALSE
    /\ lifecycle = [start |-> "idle", stop |-> "idle", accepted |-> 0, late |-> 0]

InitAuxVars == InitCursorVars /\ InitPublisherVars /\ InitLifecycleVars

InitCodec ==
    /\ \E in \in CodecInputs : payload_hex = in.arg /\ wire = in.wire
    /\ session_time \in {None, Some(SessionTimeSample)}
    /\ now = ClockSample
    /\ pc = "ready"
    /\ ret = NoReturn
    /\ InitIngestVars
    /\ InitParseVars
    /\ InitServerVars
    /\ InitAuxVars

\* a caller invokes decode_eucaws_payload(payload_hex, session_time)
Decode ==
    /\ pc = "ready"
    /\ ret' = decode_eucaws_payload(payload_hex, session_time, now)
    /\ pc' = "decode_eucaws_payload"
    /\ UNCHANGED <<payload_hex, wire, session_time, now, ingest_vars, parse_vars, aux_vars, server_vars>>

\* a caller invokes decode_eucaws_payload_legacy(payload_hex, session_time)
DecodeLegacy ==
    /\ pc = "ready"
    /\ ret' = decode_eucaws_payload_legacy(payload_hex, session_time, now)
    /\ pc' = "decode_eucaws_payload_legacy"
    /\ UNCHANGED <<payload_hex, wire, session_time, now, ingest_vars, parse_vars, aux_vars, server_vars>>

NextCodec == Decode \/ DecodeLegacy

SpecCodec == InitCodec /\ [][NextCodec]_vars

\* the listener is up, the table is empty
InitIngest ==
    /\ payload_hex = PyNone
    /\ wire = None
    /\ session_time = None
    /\ ret = NoReturn
    /\ now = ClockSample
    /\ pc = "listening"
    /\ InitIngestVars
    /\ InitParseVars
    /\ InitServerVars
    /\ InitAuxVars

\* a connection is accepted and handle_client runs on it to its end; the
\* publisher, if it is asked, returns True or False or raises
HandleClient ==
    /\ accepted < MaxConnections
    /\ \E rx \in RecvOutcomes, create_raises \in BOOLEAN :
         \E publish_outcome \in PublishOutcomes :
         \E h \in {handle_client(rx, ClientAddress, now, create_raises, publish_outcome)} :
             /\ recv' = rx
             /\ db' = db \o h.created
             /\ codec_calls' = h.codec_calls
             /\ log' = h.log
             /\ published' = [n \in 1..Len(h.publish) |->
                                 [imei |-> h.publish[n].imei, data |-> h.publish[n].data,
                                  outcome |-> publish_outcome]]
    /\ accepted' = accepted + 1
    /\ now' = [now EXCEPT !.second = @ + 1]
    /\ pc' = "handle_client"
    /\ UNCHANGED <<codec_vars, command, parse_vars, aux_vars, server_vars>>

\* an operator runs manage.py reprocess_eucaws; record.save() raises or not
Reprocess ==
    /\ \E options \in CommandOptions, save_raises \in BOOLEAN :
         \E r \in {reprocess_eucaws(db, options, save_raises, now)} :
             /\ save_raises => r.saves > 0
             /\ db' = r.db
             /\ codec_calls' = r.codec_calls
             /\ command' = Some([options |-> options, save_raises |-> save_raises,
                                 queryset |-> r.queryset,
                                 success_count |-> r.success_count,
                                 error_count |-> r.error_count,
                                 skipped_count |-> r.skipped_count])
    /\ published' = <<>>
    /\ pc' = "reprocess_eucaws"
    /\ UNCHANGED <<codec_vars, now, recv, accepted, log, parse_vars, aux_vars, server_vars>>

NextIngest == HandleClient \/ Reprocess

SpecIngest == InitIngest /\ [][NextIngest]_vars

----------------------------------------------------------------------------
(* The handler on every return value of the codec *)

\* a connection is accepted and handle_client runs on the message it
\* receives, the codec returning one of its return values for the candidate
HandleObserved ==
    /\ accepted < MaxConnections
    /\ \E rx \in {r \in RecvOutcomes : r.exc = None /\ r.data # <<>>},
          create_raises \in BOOLEAN, publish_outcome \in PublishOutcomes,
          as_hex \in BOOLEAN :
         \E h \in {handle_observed(rx, ClientAddress, now, create_raises,
                                   publish_outcome, as_hex)} :
             /\ recv' = rx
             /\ db' = db \o h.created
             /\ codec_calls' = h.codec_calls
             /\ log' = h.log
             /\ published' = [n \in 1..Len(h.publish) |->
                                 [imei |-> h.publish[n].imei, data |-> h.publish[n].data,
                                  outcome |-> publish_outcome]]
    /\ accepted' = accepted + 1
    /\ now' = [now EXCEPT !.second = @ + 1]
    /\ pc' = "handle_client"
    /\ UNCHANGED <<codec_vars, command, parse_vars, aux_vars, server_vars>>

NextMerge == HandleObserved

SpecMerge == InitIngest /\ [][NextMerge]_vars

----------------------------------------------------------------------------
(* Repeated codec calls on one payload while the clock runs *)

\* calls made on the payload, and seconds the clock moves meanwhile
MaxCalls == 2
MaxTicks == 1

\* the arguments of the repeated calls: every calendar case, and some
\* arguments that are no payload
RepeatInputs ==
    {[arg |-> PyStr(bytes_hex(b)), wire |-> Some(b)] : b \in DateSweep \cup BasePayloads}
    \cup {[arg |-> PyStr(s), wire |-> WireOf(s)] : s \in OddStrings}
    \cup {[arg |-> PyStr(bytes_hex(b \o <<0>>)), wire |-> Some(b \o <<0>>)] :
             b \in {Reference, InvalidDate}}
    \cup {[arg |-> PyBytes(Reference), wire |-> Some(Reference)]}

InitRepeat ==
    /\ \E in \in RepeatInputs : payload_hex = in.arg /\ wire = in.wire
    /\ session_time \in {None, Some(SessionTimeSample)}
    /\ now = ClockSample
    /\ pc = "ready"
    /\ ret = NoReturn
    /\ InitIngestVars
    /\ InitParseVars
    /\ InitServerVars
    /\ InitAuxVars

\* a caller invokes decode_eucaws_payload(payload_hex, session_time) once more
DecodeAgain ==
    /\ Len(codec_calls) < MaxCalls
    /\ codec_calls' = Append(codec_calls, CodecCall(payload_hex, session_time, now))
    /\ ret' = codec_calls'[Len(codec_calls')].ret
    /\ pc' = "decode_eucaws_payload"
    /\ UNCHANGED <<payload_hex, wire, session_time, now>>
    /\ UNCHANGED <<recv, accepted, db, published, log, command, parse_vars, aux_vars, server_vars>>

\* a second passes
Tick ==
    /\ now.second < ClockSample.second + MaxTicks
    /\ now' = [now EXCEPT !.second = @ + 1]
    /\ UNCHANGED <<codec_vars, pc, ingest_vars, parse_vars, aux_vars, server_vars>>

NextRepeat == DecodeAgain \/ Tick

SpecRepeat == InitRepeat /\ [][NextRepeat]_vars

----------------------------------------------------------------------------
(* Parser calls on envelopes cut at every length *)

\* elements in one envelope
MaxElements == 2

\* elements of every type the parser knows, well-formed and undersized, and
\* of two types it does not know
ElementSample ==
    { IE(IE_HEADER, HeaderBody(ImeiSample)),
      IE(IE_HEADER, SubSeq(HeaderBody(ImeiSample), 1, 27)),
      IE(IE_PAYLOAD, Reference),
      IE(IE_PAYLOAD, <<>>),
      IE(IE_LOCATION, <<0, 3, 45, 75, 32, 255, 162, 118, 176, 0, 5>>),
      IE(IE_CONFIRMATION, <<1>>),
      IE(4, <<9, 9>>),
      IE(0, <<>>) }

ElementLists == UNION { [1..n -> ElementSample] : n \in 0..MaxElements }

RECURSIVE Concat(_)
Concat(elements) ==
    IF elements = <<>> THEN <<>> ELSE Head(elements) \o Concat(Tail(elements))

\* what arrives of an envelope: its first cut bytes
Buffers ==
    UNION { { [elements |-> es, cut |-> k, data |-> SubSeq(Envelope(Concat(es)), 1, k)] :
                k \in 0..Len(Envelope(Concat(es))) } : es \in ElementLists }

InitParse ==
    /\ buffer \in Buffers
    /\ payload_hex = PyNone
    /\ wire = None
    /\ session_time = None
    /\ ret = NoReturn
    /\ now = ClockSample
    /\ pc = "ready"
    /\ parsed = NoParsed
    /\ InitIngestVars
    /\ InitServerVars
    /\ InitAuxVars

\* a caller invokes parse_iridium_message(data)
ParseMessage ==
    /\ pc = "ready"
    /\ parsed' = parse_outcome(buffer.data)
    /\ pc' = "parse_iridium_message"
    /\ UNCHANGED <<codec_vars, now, ingest_vars, buffer, server_vars, aux_vars>>

NextParse == ParseMessage

SpecParse == InitParse /\ [][NextParse]_vars

----------------------------------------------------------------------------
(* The listener: the accept loop of start() and one thread per connection,  *)
(* each running handle_client, their steps interleaved.  Creating a thread  *)
(* is taken to succeed.                                                     *)

\* peers that connect, and accept() calls that raise
MaxPeers == 2
MaxAcceptErrors == 1

GoodMessage == Envelope(IE(IE_HEADER, HeaderBody(ImeiSample)) \o IE(IE_PAYLOAD, Reference))

\* what a connection brings: what recv gives, whether objects.create raises,
\* what the publisher does, which return value the codec has (handle_observed),
\* and the call, if any, that never returns
Behaviour(data, exc, create_raises, publish_outcome, as_hex, hang) ==
    [rx |-> [exc |-> exc, data |-> data], create_raises |-> create_raises,
     publish_outcome |-> publish_outcome, as_hex |-> as_hex, hang |-> hang]

ServerInputs ==
    { Behaviour(GoodMessage, None, FALSE, "True", FALSE, "no"),
      Behaviour(GoodMessage, None, FALSE, "True", TRUE, "no"),
      Behaviour(<<>>, Some("ConnectionResetError"), FALSE, "True", FALSE, "no"),
      Behaviour(<<1, 0>>, None, FALSE, "True", FALSE, "no"),
      Behaviour(GoodMessage, None, FALSE, "raises", TRUE, "no"),
      Behaviour(GoodMessage, None, TRUE, "True", FALSE, "no"),
      Behaviour(GoodMessage, None, FALSE, "True", FALSE, "recv"),
      Behaviour(GoodMessage, None, FALSE, "True", FALSE, "create") }

PeerAddress(n) == <<ClientAddress[1], ClientAddress[2] + n - 1>>

\* what the handler of a connection does, from handle_client
effect(connection, clock) ==
    handle_observed(connection.input.rx, connection.address, clock,
                    connection.input.create_raises, connection.input.publish_outcome,
                    connection.input.as_hex)

\* a peer connects; the connection waits in the listen queue.  What its
\* handler will do with it depends on nothing but the connection, and is
\* worked out here, once, and kept with it.
Connect ==
    /\ accepted + Len(backlog) < MaxPeers
    /\ \E in \in ServerInputs :
         \E peer \in {[input |-> in,
                        address |-> PeerAddress(accepted + Len(backlog) + 1)]} :
         \E h \in {effect(peer, now)} :
             backlog' = Append(backlog, [input |-> peer.input, address |-> peer.address,
                                         effect |-> h])
    /\ UNCHANGED <<codec_vars, now, pc, ingest_vars, parse_vars, aux_vars, acceptor, threads>>

\* the loop waits in accept() until every handler started so far has ended
Accept_after_join ==
    /\ acceptor.pc = "accept"
    /\ \A t \in 1..Len(threads) : threads[t].pc = "done"
    /\ backlog # <<>>
    /\ acceptor' = [acceptor EXCEPT !.pc = "start", !.connection = Some(Head(backlog))]
    /\ backlog' = Tail(backlog)
    /\ accepted' = accepted + 1
    /\ UNCHANGED <<codec_vars, now, pc, parse_vars, aux_vars, threads>>
    /\ UNCHANGED <<recv, db, codec_calls, published, log, command>>

\* line 35: accept() returns the oldest waiting connection
Accept ==
    /\ acceptor.pc = "accept"
    /\ backlog # <<>>
    /\ acceptor' = [acceptor EXCEPT !.pc = "start", !.connection = Some(Head(backlog))]
    /\ backlog' = Tail(backlog)
    /\ accepted' = accepted + 1
    /\ UNCHANGED <<codec_vars, now, pc, parse_vars, aux_vars, threads>>
    /\ UNCHANGED <<recv, db, codec_calls, published, log, command>>

\* lines 35, 45-47: accept() raises; the error is logged and the loop goes on
AcceptFails ==
    /\ acceptor.pc = "accept"
    /\ acceptor.errors < MaxAcceptErrors
    /\ acceptor' = [acceptor EXCEPT !.errors = @ + 1]
    /\ UNCHANGED <<codec_vars, now, pc, ingest_vars, parse_vars, aux_vars, backlog, threads>>

\* lines 37-42: a daemon thread is started on handle_client for the
\* connection, and the loop returns to accept()
StartThread ==
    /\ acceptor.pc = "start"
    /\ threads' = Append(threads, [connection |-> Val(acceptor.connection),
                                   pc |-> "recv", open |-> TRUE, raised |-> FALSE])
    /\ acceptor' = [acceptor EXCEPT !.pc = "accept", !.connection = None]
    /\ UNCHANGED <<codec_vars, now, pc, ingest_vars, parse_vars, aux_vars, backlog>>

\* where a handler goes from a step with no finally clause around it: an
\* exception ends the thread
handler_after_no_finally(step, raised) ==
    IF raised THEN "done"
    ELSE CASE step = "recv" -> "process"
           [] step = "process" -> "create"
           [] step = "create" -> "close"
           [] step = "close" -> "done"

\* where a handler goes from a step: on, or, when the step raised, through
\* the except clause to the finally clause (lines 138-141)
handler_after(step, raised) ==
    IF raised THEN "close"
    ELSE CASE step = "recv" -> "process"
           [] step = "process" -> "create"
           [] step = "create" -> "close"
           [] step = "close" -> "done"

\* line 57: recv returns a message, returns nothing, or raises
Recv(t) ==
    /\ threads[t].pc = "recv"
    /\ threads[t].connection.input.hang # "recv"
    /\ \E rx \in {threads[t].connection.input.rx} :
         threads' = [threads EXCEPT
             ![t].raised = rx.exc # None,
             ![t].pc = IF rx.exc = None /\ rx.data = <<>> THEN "close"
                       ELSE handler_after("recv", rx.exc # None)]
    /\ UNCHANGED <<codec_vars, now, pc, ingest_vars, parse_vars, aux_vars, backlog, acceptor>>

\* lines 59-100: parse, station identifier, candidate, codec, publish
Process(t) ==
    /\ threads[t].pc = "process"
    /\ \E h \in {threads[t].connection.effect} :
         published' = published \o
             [n \in 1..Len(h.publish) |->
                 [imei |-> h.publish[n].imei, data |-> h.publish[n].data,
                  outcome |-> threads[t].connection.input.publish_outcome]]
    /\ threads' = [threads EXCEPT ![t].pc = handler_after("process", FALSE)]
    /\ UNCHANGED <<codec_vars, now, pc, parse_vars, aux_vars, backlog, acceptor>>
    /\ UNCHANGED <<recv, accepted, db, codec_calls, log, command>>

\* lines 103-134: objects.create stores the record, or raises
Create(t) ==
    /\ threads[t].pc = "create"
    /\ threads[t].connection.input.hang # "create"
    /\ db' = db \o threads[t].connection.effect.created
    /\ threads' = [threads EXCEPT
           ![t].raised = threads[t].connection.input.create_raises,
           ![t].pc = handler_after("create", threads[t].connection.input.create_raises)]
    /\ UNCHANGED <<codec_vars, now, pc, parse_vars, aux_vars, backlog, acceptor>>
    /\ UNCHANGED <<recv, accepted, codec_calls, published, log, command>>

\* lines 140-141: the finally clause closes the client socket
Close(t) ==
    /\ threads[t].pc = "close"
    /\ threads' = [threads EXCEPT ![t].open = FALSE,
                                  ![t].pc = handler_after("close", FALSE)]
    /\ UNCHANGED <<codec_vars, now, pc, ingest_vars, parse_vars, aux_vars, backlog, acceptor>>

HandlerStep(t) == Recv(t) \/ Process(t) \/ Create(t) \/ Close(t)

NextServer ==
    \/ Connect
    \/ Accept
    \/ AcceptFails
    \/ StartThread
    \/ \E t \in 1..Len(threads) : Recv(t)
    \/ \E t \in 1..Len(threads) : Process(t)
    \/ \E t \in 1..Len(threads) : Create(t)
    \/ \E t \in 1..Len(threads) : Close(t)

SpecServer == InitIngest /\ [][NextServer]_vars

\* the accept loop and every handler thread are scheduled again and again
SpecServerFair ==
    /\ SpecServer
    /\ WF_vars(Accept)
    /\ WF_vars(StartThread)
    /\ \A t \in 1..MaxPeers : WF_vars(t <= Len(threads) /\ HandlerStep(t))

----------------------------------------------------------------------------
(* A BitReader and its callers *)

\* bytes of the buffer a reader is made on
MaxBytes == 2
\* the widest read asked for
MaxWidth == 10
\* reads made on one reader
MaxReads == 3

\* all bits clear, all set, the top bit alone, a mixed pattern
ByteSample == {0, 128, 165, 255}

ReaderData == UNION { [1..n -> ByteSample] : n \in 0..MaxBytes }

\* BitReader(data)
InitBits ==
    /\ \E data \in ReaderData : reader = [data |-> data, bit_position |-> 0]
    /\ reads = NoReads
    /\ payload_hex = PyNone
    /\ wire = None
    /\ session_time = None
    /\ ret = NoReturn
    /\ now = ClockSample
    /\ pc = "ready"
    /\ InitIngestVars
    /\ InitParseVars
    /\ InitServerVars
    /\ InitPublisherVars
    /\ InitLifecycleVars

get_position(r) == r.bit_position

\* what a read leaves behind: the reader moved, and the call on record
AfterRead(op, num_bits, r) ==
    /\ reader' = [reader EXCEPT !.bit_position = r.bit_position]
    /\ reads' = [count  |-> reads.count + 1,
                 widths |-> IF r.exc = None THEN reads.widths + num_bits ELSE reads.widths,
                 failed |-> reads.failed \/ r.exc # None,
                 last   |-> Some([op |-> op, num_bits |-> num_bits,
                                  position |-> reader.bit_position,
                                  exc |-> r.exc, value |-> r.value])]
    /\ pc' = op
    /\ UNCHANGED <<codec_vars, now, ingest_vars, parse_vars, server_vars, publisher_vars, lifecycle_vars>>

\* a caller invokes reader.read_bits(num_bits)
ReadBits ==
    /\ reads.count < MaxReads
    /\ \E num_bits \in 1..MaxWidth :
           \E r \in {read_bits(reader.data, reader.bit_position, num_bits)} :
               AfterRead("read_bits", num_bits, r)

\* a caller invokes reader.read_signed_bits(num_bits)
ReadSignedBits ==
    /\ reads.count < MaxReads
    /\ \E num_bits \in 1..MaxWidth :
           \E r \in {read_signed_bits(reader.data, reader.bit_position, num_bits)} :
               AfterRead("read_signed_bits", num_bits, r)

NextBits == ReadBits \/ ReadSignedBits

SpecBits == InitBits /\ [][NextBits]_vars

----------------------------------------------------------------------------
(* The publisher and the threads that publish through it *)

\* EUCAWSMQTTPublisher(): no client, not connected
NewPublisher == [clients |-> 0, connected |-> FALSE]

\* connect() on publisher i: a new client is made and asked to connect, or
\* making it raises, which is caught and leaves the publisher not connected
connect(all, i, raises) ==
    IF raises THEN [all EXCEPT ![i].connected = FALSE]
    ELSE [all EXCEPT ![i].clients = @ + 1]

OtherThan_publisher_vars ==
    <<codec_vars, now, pc, ingest_vars, parse_vars, server_vars, cursor_vars, lifecycle_vars>>

\* a handler thread or a dashboard request calls publish_eucaws_to_mqtt
Call(c) ==
    /\ callers[c].pc = "idle"
    /\ callers' = [callers EXCEPT ![c].pc = "check"]
    /\ UNCHANGED <<publisher_instance, publishers, OtherThan_publisher_vars>>

\* get_mqtt_publisher, line 158: if _publisher_instance is None
Check(c) ==
    /\ callers[c].pc = "check"
    /\ callers' = [callers EXCEPT ![c].pc = IF publisher_instance = None THEN "create"
                                             ELSE "return"]
    /\ UNCHANGED <<publisher_instance, publishers, OtherThan_publisher_vars>>

\* line 159: _publisher_instance = EUCAWSMQTTPublisher()
Construct(c) ==
    /\ callers[c].pc = "create"
    /\ publishers' = Append(publishers, NewPublisher)
    /\ publisher_instance' = Some(Len(publishers) + 1)
    /\ callers' = [callers EXCEPT ![c].pc = "connect"]
    /\ UNCHANGED OtherThan_publisher_vars

\* line 160: _publisher_instance.connect(), on the object the global names now
ConnectNew(c) ==
    /\ callers[c].pc = "connect"
    /\ \E raises \in BOOLEAN :
           publishers' = connect(publishers, Val(publisher_instance), raises)
    /\ callers' = [callers EXCEPT ![c].pc = "return"]
    /\ UNCHANGED <<publisher_instance, OtherThan_publisher_vars>>

\* line 162: return _publisher_instance, bound to publisher at line 173
Return(c) ==
    /\ callers[c].pc = "return"
    /\ callers' = [callers EXCEPT ![c].pc = "publish_observation",
                                  ![c].publisher = publisher_instance]
    /\ UNCHANGED <<publisher_instance, publishers, OtherThan_publisher_vars>>

\* publish_observation, lines 80-82: connect again if not connected
Reconnect(c) ==
    /\ callers[c].pc = "publish_observation"
    /\ \E i \in {Val(callers[c].publisher)} :
           IF publishers[i].connected THEN UNCHANGED publishers
           ELSE \E raises \in BOOLEAN : publishers' = connect(publishers, i, raises)
    /\ callers' = [callers EXCEPT ![c].pc = "publish"]
    /\ UNCHANGED <<publisher_instance, OtherThan_publisher_vars>>

\* lines 84-140: give up if still not connected, else build the message and
\* hand it to the client
Publish(c) ==
    /\ callers[c].pc = "publish"
    /\ \E i \in {Val(callers[c].publisher)} :
           \E outcome \in (IF publishers[i].connected THEN {"success", "failure", "False"}
                           ELSE {"False"}) :
               callers' = [callers EXCEPT ![c].pc = "done", ![c].result = Some(outcome)]
    /\ UNCHANGED <<publisher_instance, publishers, OtherThan_publisher_vars>>

\* _on_connect, on the client's network thread: the broker answered
OnConnect(i) ==
    /\ publishers[i].clients > 0
    /\ \E rc \in {0, 5} :
           /\ publishers[i].connected # (rc = 0)
           /\ publishers' = [publishers EXCEPT ![i].connected = (rc = 0)]
    /\ UNCHANGED <<publisher_instance, callers, OtherThan_publisher_vars>>

NextPublisher ==
    \/ \E c \in 1..MaxCallers : Call(c)
    \/ \E c \in 1..MaxCallers : Check(c)
    \/ \E c \in 1..MaxCallers : Construct(c)
    \/ \E c \in 1..MaxCallers : ConnectNew(c)
    \/ \E c \in 1..MaxCallers : Return(c)
    \/ \E c \in 1..MaxCallers : Reconnect(c)
    \/ \E c \in 1..MaxCallers : Publish(c)
    \/ \E i \in 1..Len(publishers) : OnConnect(i)

SpecPublisher == InitIngest /\ [][NextPublisher]_vars

----------------------------------------------------------------------------
(* Starting and stopping the listener *)

\* connections accepted in one run of start()
MaxAccepted == 2

OtherThan_lifecycle_vars ==
    <<codec_vars, now, pc, ingest_vars, parse_vars, server_vars, cursor_vars, publisher_vars>>

\* start_socket_server(): the server object is made and the thread that runs
\* start() is started
StartSocketServer ==
    /\ server_instance = None
    /\ lifecycle.start = "idle"
    /\ server_instance' = Some("SatelliteSocketServer")
    /\ lifecycle' = [lifecycle EXCEPT !.start = "socket"]
    /\ UNCHANGED <<server_socket, running, OtherThan_lifecycle_vars>>

\* start(), lines 24-25: the socket is created
CreateSocket ==
    /\ lifecycle.start = "socket"
    /\ server_socket' = "open"
    /\ lifecycle' = [lifecycle EXCEPT !.start = "bind"]
    /\ UNCHANGED <<server_instance, running, OtherThan_lifecycle_vars>>

\* line 28: bind, which raises on a closed socket and may raise on an open
\* one (the port is taken); the except at line 48 leads to the finally
Bind ==
    /\ lifecycle.start = "bind"
    /\ \E raises \in (IF server_socket = "closed" THEN {TRUE} ELSE BOOLEAN) :
           /\ lifecycle' = [lifecycle EXCEPT !.start = IF raises THEN "finally" ELSE "listen"]
           /\ server_socket' = IF raises THEN server_socket ELSE "bound"
    /\ UNCHANGED <<server_instance, running, OtherThan_lifecycle_vars>>

\* line 29: listen, which raises on a closed socket
Listen ==
    /\ lifecycle.start = "listen"
    /\ IF server_socket = "closed"
       THEN lifecycle' = [lifecycle EXCEPT !.start = "finally"] /\ UNCHANGED server_socket
       ELSE lifecycle' = [lifecycle EXCEPT !.start = "running"] /\ server_socket' = "listening"
    /\ UNCHANGED <<server_instance, running, OtherThan_lifecycle_vars>>

\* line 30: self.running = True
SetRunning ==
    /\ lifecycle.start = "running"
    /\ running' = TRUE
    /\ lifecycle' = [lifecycle EXCEPT !.start = "while"]
    /\ UNCHANGED <<server_instance, server_socket, OtherThan_lifecycle_vars>>

\* line 33: while self.running
TestRunning ==
    /\ lifecycle.start = "while"
    /\ lifecycle' = [lifecycle EXCEPT !.start = IF running THEN "accept" ELSE "finally"]
    /\ UNCHANGED <<server_instance, server_socket, running, OtherThan_lifecycle_vars>>

\* line 35: accept is called; on a closed socket it raises, and the except at
\* lines 45-47 leads back to the test of the loop
CallAccept ==
    /\ lifecycle.start = "accept"
    /\ lifecycle' = [lifecycle EXCEPT !.start = IF server_socket = "closed" THEN "while"
                                                 ELSE "in_accept"]
    /\ UNCHANGED <<server_instance, server_socket, running, OtherThan_lifecycle_vars>>

\* lines 35-42: a peer connects, accept returns and the handler thread is
\* started. A socket closed by another thread while accept waits on it either
\* makes accept raise or, where the operating system keeps the socket until
\* accept returns, still delivers the next connection
AcceptReturns ==
    /\ lifecycle.start = "in_accept"
    /\ \/ /\ lifecycle.accepted < MaxAccepted
          /\ lifecycle' = [lifecycle EXCEPT
                 !.start = "while",
                 !.accepted = @ + 1,
                 !.late = IF lifecycle.stop = "returned" THEN @ + 1 ELSE @]
       \/ /\ server_socket = "closed"
          /\ lifecycle' = [lifecycle EXCEPT !.start = "while"]
    /\ UNCHANGED <<server_instance, server_socket, running, OtherThan_lifecycle_vars>>

\* lines 50-51: the socket, if there is one, is closed and start() returns
Finally ==
    /\ lifecycle.start = "finally"
    /\ server_socket' = IF server_socket # "None" THEN "closed" ELSE server_socket
    /\ lifecycle' = [lifecycle EXCEPT !.start = "done"]
    /\ UNCHANGED <<server_instance, running, OtherThan_lifecycle_vars>>

\* stop_socket_server(), lines 171-172 and stop(), line 145: the server
\* object is there, self.running = False
StopRunning ==
    /\ lifecycle.stop = "idle"
    /\ server_instance # None
    /\ running' = FALSE
    /\ lifecycle' = [lifecycle EXCEPT !.stop = "close"]
    /\ UNCHANGED <<server_instance, server_socket, OtherThan_lifecycle_vars>>

\* stop(), lines 146-148: the socket, if there is one, is closed
StopClose ==
    /\ lifecycle.stop = "close"
    /\ server_socket' = IF server_socket # "None" THEN "closed" ELSE server_socket
    /\ lifecycle' = [lifecycle EXCEPT !.stop = "clear"]
    /\ UNCHANGED <<server_instance, running, OtherThan_lifecycle_vars>>

\* stop_socket_server(), line 173: _server_instance = None, and the call
\* returns
StopReturns ==
    /\ lifecycle.stop = "clear"
    /\ server_instance' = None
    /\ lifecycle' = [lifecycle EXCEPT !.stop = "returned"]
    /\ UNCHANGED <<server_socket, running, OtherThan_lifecycle_vars>>

NextLifecycle ==
    \/ StartSocketServer
    \/ CreateSocket
    \/ Bind
    \/ Listen
    \/ SetRunning
    \/ TestRunning
    \/ CallAccept
    \/ AcceptReturns
    \/ Finally
    \/ StopRunning
    \/ StopClose
    \/ StopReturns

SpecLifecycle == InitIngest /\ [][NextLifecycle]_vars

----------------------------------------------------------------------------
(* Properties of the codec, checked under SpecCodec *)

\* the call reached the bit layout with these payload bytes
CodecGotBytes ==
    \/ pc = "decode_eucaws_payload" /\ payload_hex.type = "str" /\ wire # None
    \/ pc = "decode_eucaws_payload_legacy" /\ payload_hex.type = "bytes"

CodecBytes == Val(wire)

Format100 ==
    CodecGotBytes /\ LET b == CodecBytes IN Len(b) >= 30 /\ b[1] = 100

\* the section 4.2 table for the fields that have a sentinel: the raw
\* variable, the Observation field, width, signedness, and scale and offset
\* after the unit conversion, in 10^-6 units (tendency characteristic: a code)
SentinelTable ==
    { [var |-> "cog_raw",   field |-> "ship_course",   bits |-> 7,  signed |-> FALSE, scale |-> 5000000, offset |-> 0],
      [var |-> "sog_raw",   field |-> "ship_speed",    bits |-> 6,  signed |-> FALSE, scale |-> 500000,  offset |-> 0],
      [var |-> "hdt_raw",   field |-> "ship_heading",  bits |-> 7,  signed |-> FALSE, scale |-> 5000000, offset |-> 0],
      [var |-> "draft_raw", field |-> "draft",         bits |-> 5,  signed |-> TRUE,  scale |-> 1000000, offset |-> -10000000],
      [var |-> "lat_raw",   field |-> "latitude",      bits |-> 15, signed |-> TRUE,  scale |-> 10000,   offset |-> -90000000],
      [var |-> "lon_raw",   field |-> "longitude",     bits |-> 16, signed |-> TRUE,  scale |-> 10000,   offset |-> -180000000],
      [var |-> "press_raw", field |-> "barometric_pressure", bits |-> 11, signed |-> FALSE, scale |-> 100000, offset |-> 850000000],
      [var |-> "mslp_raw",  field |-> "msl_pressure",  bits |-> 11, signed |-> FALSE, scale |-> 100000,  offset |-> 850000000],
      [var |-> "ppp_raw",   field |-> "pressure_tendency_3h", bits |-> 10, signed |-> TRUE, scale |-> 100000, offset |-> -50000000],
      [var |-> "a_raw",     field |-> "pressure_tendency_char", bits |-> 4, signed |-> FALSE, scale |-> 1, offset |-> 0],
      [var |-> "dd_raw",    field |-> "wind_direction_true", bits |-> 7, signed |-> FALSE, scale |-> 5000000, offset |-> 0],
      [var |-> "ff_raw",    field |-> "wind_speed_ms", bits |-> 10, signed |-> FALSE, scale |-> 100000,  offset |-> 0],
      [var |-> "ff_raw",    field |-> "wind_speed_knots", bits |-> 10, signed |-> FALSE, scale |-> 194384, offset |-> 0],
      [var |-> "rwd_raw",   field |-> "wind_direction_relative", bits |-> 7, signed |-> FALSE, scale |-> 5000000, offset |-> 0],
      [var |-> "rws_raw",   field |-> "wind_speed_relative", bits |-> 8, signed |-> FALSE, scale |-> 500000, offset |-> 0],
      [var |-> "ffmax_raw", field |-> "wind_gust_speed", bits |-> 8, signed |-> FALSE, scale |-> 500000, offset |-> 0],
      [var |-> "ddmax_raw", field |-> "wind_gust_direction", bits |-> 7, signed |-> FALSE, scale |-> 5000000, offset |-> 0],
      [var |-> "ta_raw",    field |-> "air_temperature", bits |-> 10, signed |-> FALSE, scale |-> 100000, offset |-> -49950000],
      [var |-> "u_raw",     field |-> "relative_humidity", bits |-> 10, signed |-> FALSE, scale |-> 100000, offset |-> 0],
      [var |-> "sst_raw",   field |-> "sea_temperature", bits |-> 12, signed |-> FALSE, scale |-> 10000, offset |-> -5000000],
      [var |-> "vbat_raw",  field |-> "battery_voltage", bits |-> 7, signed |-> FALSE, scale |-> 200000, offset |-> 5000000],
      [var |-> "tproc_raw", field |-> "processor_temperature", bits |-> 8, signed |-> FALSE, scale |-> 500000, offset |-> -40000000],
      [var |-> "gps_h_raw", field |-> "gps_height",    bits |-> 8,  signed |-> TRUE,  scale |-> 1000000, offset |-> -50000000] }

\* the field's bits as the table's signedness reads them
TableRaw(b, t) ==
    LET u == RawOf(b, t.var)
    IN  IF t.signed /\ u >= 2^(t.bits - 1) THEN u - 2^t.bits ELSE u

IsSentinel(b, t) == RawOf(b, t.var) = 2^t.bits - 1

\* C1: in a format-100 payload, a field whose raw bits are all 1 is absent
\* from the Observation, for unsigned and signed fields alike.
C1_SentinelIsAbsent ==
    Format100 =>
        LET b == CodecBytes
        IN  \A t \in SentinelTable : IsSentinel(b, t) => ret.result[t.field] = None

\* C1 restricted to the fields read with read_bits
C1_UnsignedSentinelIsAbsent ==
    Format100 =>
        LET b == CodecBytes
        IN  \A t \in SentinelTable :
                (~t.signed /\ IsSentinel(b, t)) => ret.result[t.field] = None

\* C3: every raw value other than the sentinel decodes to
\* raw * scale + offset with the unit conversion applied.
C3_LinearFormula ==
    Format100 =>
        LET b == CodecBytes
        IN  \A t \in SentinelTable :
                ~IsSentinel(b, t) =>
                    ret.result[t.field] = Some(TableRaw(b, t) * t.scale + t.offset)

\* C4: decode_eucaws_payload returns for every argument; a call that did not
\* decode carries a non-empty error text, and a malformed argument never
\* decodes.
C4_NoErrorEscapes ==
    pc = "decode_eucaws_payload" =>
        /\ ret.raised = None
        /\ (ret.result.is_decoded <=> ret.result.decode_error = None)
        /\ (ret.result.decode_error # None => Len(Val(ret.result.decode_error)) > 0)
        /\ (~CodecGotBytes => ~ret.result.is_decoded)

C4_Witness ==
    /\ pc = "decode_eucaws_payload"
    /\ payload_hex.type = "bytes"
    /\ ret.result.decode_error = Some("fromhex() argument must be str, not bytes")

\* C5: a payload of 30 bytes or more that starts with 100 decodes: success,
\* format identifier 100, no error, and the cursor stops at bit 235, inside
\* the buffer.
C5_Format100Decodes ==
    Format100 =>
        /\ ret.result.is_decoded
        /\ ret.result.format_version = Some(100)
        /\ ret.result.decode_error = None
        /\ ret.raised = None
        /\ ret.bit_position = 235
        /\ ret.bit_position <= 8 * Len(CodecBytes)

C5_Witness ==
    /\ pc = "decode_eucaws_payload"
    /\ payload_hex = PyStr(test_payload)
    /\ ret.result.is_decoded
    /\ ret.result.format_version = Some(100)

\* C6: a payload shorter than 30 bytes gives decode-success false, an error
\* naming the byte count, and nothing else of the result changed.
C6_ShortPayloadRejected ==
    (CodecGotBytes /\ Len(CodecBytes) < 30) =>
        /\ ~ret.result.is_decoded
        /\ ret.result.decode_error =
              Some("Payload too short: " \o ToString(Len(CodecBytes))
                   \o " bytes (expected minimum 30)")
        /\ [ret.result EXCEPT !.decode_error = None] = InitialResult

C6_Witness ==
    /\ pc = "decode_eucaws_payload"
    /\ CodecGotBytes /\ Len(CodecBytes) = 29 /\ CodecBytes[1] = 100
    /\ ret.result.decode_error # None

\* C7: a payload whose first byte is not 100 gives decode-success false and a
\* format-mismatch error; the cursor stays at bit 8 and only the format
\* identifier is populated.
C7_FormatMismatchStops ==
    (CodecGotBytes /\ Len(CodecBytes) >= 30 /\ CodecBytes[1] # 100) =>
        /\ ~ret.result.is_decoded
        /\ ret.result.decode_error =
              Some("Invalid format ID: " \o ToString(CodecBytes[1])
                   \o " (expected 100 for S-AWS)")
        /\ ret.bit_position = 8
        /\ ret.result.format_version = Some(CodecBytes[1])
        /\ [ret.result EXCEPT !.decode_error = None, !.format_version = None] = InitialResult

C7_Witness ==
    /\ pc = "decode_eucaws_payload"
    /\ CodecGotBytes /\ Len(CodecBytes) = 30 /\ CodecBytes[1] = 101
    /\ ret.result.format_version = Some(101)

\* the calendar: the number of days of a month, 0 for no month
MonthLength(year, month) ==
    CASE month \in {1, 3, 5, 7, 8, 10, 12} -> 31
      [] month \in {4, 6, 9, 11} -> 30
      [] month = 2 -> IF (year % 4 = 0 /\ year % 100 # 0) \/ year % 400 = 0 THEN 29 ELSE 28
      [] OTHER -> 0

\* the calendar bits of payload b name no instant
CalendarInvalid(b) ==
    \/ RawOf(b, "day") < 1
    \/ RawOf(b, "day") > MonthLength(RawOf(b, "year_raw") + 2000, RawOf(b, "month"))
    \/ RawOf(b, "hour") > 23
    \/ RawOf(b, "minute") > 59

\* C8: with calendar bits that name no instant the decode still succeeds, the
\* timestamp is the fallback time if one was passed and the current time
\* otherwise, and every other field is what the same payload with a valid
\* date decodes to.
C8_InvalidCalendarFallsBack ==
    (Format100 /\ CalendarInvalid(CodecBytes)) =>
        /\ ret.result.is_decoded
        /\ ret.result.timestamp = (IF session_time # None THEN session_time ELSE Some(now))
        /\ LET dated == decode_eucaws_payload(
                            PyStr(bytes_hex(WithDate(CodecBytes, 25, 12, 3, 11, 0))),
                            session_time, now).result
           IN  /\ dated.timestamp = Some([year |-> 2025, month |-> 12, day |-> 3,
                                          hour |-> 11, minute |-> 0, second |-> 0])
               /\ [ret.result EXCEPT !.timestamp = None] = [dated EXCEPT !.timestamp = None]

\* 29 February 2100 with a fallback time passed
C8_Witness ==
    /\ pc = "decode_eucaws_payload"
    /\ Format100
    /\ RawOf(CodecBytes, "year_raw") = 100 /\ RawOf(CodecBytes, "month") = 2
    /\ RawOf(CodecBytes, "day") = 29 /\ RawOf(CodecBytes, "hour") = 23
    /\ RawOf(CodecBytes, "minute") = 59
    /\ session_time = Some(SessionTimeSample)
    /\ ret.result.timestamp = session_time

\* the documented minimum and maximum of each field, in 10^-6 units
\* (tendency characteristic: the code itself)
RangeTable ==
    { [field |-> "ship_course",             lo |-> 0,          hi |-> 360000000],
      [field |-> "ship_heading",            lo |-> 0,          hi |-> 360000000],
      [field |-> "wind_direction_true",     lo |-> 0,          hi |-> 360000000],
      [field |-> "wind_direction_relative", lo |-> 0,          hi |-> 360000000],
      [field |-> "wind_gust_direction",     lo |-> 0,          hi |-> 360000000],
      [field |-> "ship_speed",              lo |-> 0,          hi |-> 30000000],
      [field |-> "draft",                   lo |-> -10000000,  hi |-> 20000000],
      [field |-> "latitude",                lo |-> -90000000,  hi |-> 90000000],
      [field |-> "longitude",               lo |-> -180000000, hi |-> 180000000],
      [field |-> "barometric_pressure",     lo |-> 850000000,  hi |-> 1054600000],
      [field |-> "msl_pressure",            lo |-> 850000000,  hi |-> 1054600000],
      [field |-> "pressure_tendency_3h",    lo |-> -50000000,  hi |-> 50000000],
      [field |-> "pressure_tendency_char",  lo |-> 0,          hi |-> 8],
      [field |-> "relative_humidity",       lo |-> 0,          hi |-> 100000000],
      [field |-> "gps_height",              lo |-> -50000000,  hi |-> 204000000] }

\* C10: after any decode every numeric field is absent or within its
\* documented minimum and maximum.
C10_WithinDocumentedRange ==
    pc \in {"decode_eucaws_payload", "decode_eucaws_payload_legacy"} =>
        \A r \in RangeTable :
            \/ ret.result[r.field] = None
            \/ (Val(ret.result[r.field]) >= r.lo /\ Val(ret.result[r.field]) <= r.hi)

----------------------------------------------------------------------------
(* Properties of ingestion and reprocessing, checked under SpecIngest *)

\* the last operation was a handler that received a message
Handled == pc = "handle_client" /\ recv.exc = None /\ recv.data # <<>>

\* the envelope of that message, as the handler holds it
LastParsed == imei_fallback(parse_iridium_message(recv.data), recv.data)

\* the sensor-payload candidate of that message, None if it has none
LastCandidate == select_eucaws_payload(LastParsed, recv.data).eucaws_payload

\* b is a payload the codec decodes: 30 bytes, the first one 100
Decodable(b) == Len(b) = 30 /\ b[1] = 100

\* the handler stored its record, which is then the newest row
Stored == Handled /\ db # <<>> /\ \A n \in 1..Len(log) : log[n] # "error"
LastRecord == db[Len(db)]

\* the Observation the codec gives for payload bytes b
ObservationOf(b, fallback) ==
    decode_eucaws_payload(PyStr(bytes_hex(b)), fallback, now).result

\* row carries the weather values of Observation o
CarriesValues(row, o) ==
    /\ row.wind_speed_ms = o.wind_speed_ms
    /\ row.wind_speed_knots = o.wind_speed_knots
    /\ row.air_temperature = o.air_temperature
    /\ row.sea_temperature = o.sea_temperature
    /\ row.barometric_pressure = o.barometric_pressure
    /\ row.relative_humidity = o.relative_humidity

\* the last operation was a run of the command that saves what it decodes
Reprocessed ==
    /\ pc = "reprocess_eucaws"
    /\ ~Val(command).options.dry_run
    /\ ~Val(command).save_raises

\* the payload bytes of a stored row
RowBytes(row) == bytes_fromhex(PyStr(Val(row.payload_hex))).value

\* C2: a message whose candidate is 30 bytes starting with 100 has the codec
\* run on it and is stored with decode-success true, no decode error and the
\* values of its Observation; and a row with such a payload that the
\* reprocessing command has processed is left in that same condition.
C2_DecodableCandidateIsDecoded ==
    /\ (Stored /\ LastCandidate # None /\ Decodable(Val(LastCandidate))) =>
          /\ Len(codec_calls) = 1
          /\ LastRecord.is_eucaws_decoded
          /\ LastRecord.eucaws_decode_error = None
          /\ CarriesValues(LastRecord, ObservationOf(Val(LastCandidate), None))
    /\ Reprocessed =>
          \A i \in 1..Len(Val(command).queryset) :
             LET row == db[Val(command).queryset[i]]
             IN  (truthy_seq(row.payload_hex) /\ Decodable(RowBytes(row))) =>
                    /\ row.is_eucaws_decoded
                    /\ row.eucaws_decode_error = None
                    /\ CarriesValues(row, ObservationOf(RowBytes(row), row.session_time))

\* C9: when the handler runs the codec on a message whose envelope has a
\* session time, that session time is the fallback time of the call, and a
\* payload whose calendar bits name no instant is stored with the session
\* time as its observation time.
C9_SessionTimeIsFallback ==
    (Handled /\ codec_calls # <<>> /\ LastParsed.session_time # None) =>
        /\ codec_calls[1].session_time = LastParsed.session_time
        /\ (Stored /\ Decodable(Val(LastCandidate)) /\ CalendarInvalid(Val(LastCandidate))) =>
              LastRecord.eucaws_timestamp = LastParsed.session_time

\* the elements that lie entirely in the message, in order: type and body
RECURSIVE ElementsFrom(_, _)
ElementsFrom(data, position) ==
    IF position + 3 > Len(data) THEN <<>>
    ELSE LET length == data[position + 2] * 256 + data[position + 3]
         IN  IF position + 3 + length > Len(data) THEN <<>>
             ELSE <<[ie_id |-> data[position + 1],
                     body |-> SubSeq(data, position + 4, position + 3 + length)]>>
                  \o ElementsFrom(data, position + 3 + length)

ElementsOfType(data, ie_id, least) ==
    IF Len(data) < 3 THEN <<>>
    ELSE SelectSeq(ElementsFrom(data, 3),
                   LAMBDA e : e.ie_id = ie_id /\ Len(e.body) >= least)

\* the Header element the record's header fields come from, if there is one
HeaderElements == ElementsOfType(recv.data, 1, 28)
LastHeader == HeaderElements[Len(HeaderElements)].body

\* the header fields of the record other than the station identifier are
\* there only with a Header element of 28 bytes or more and are its bytes
HeaderFieldsFromElement ==
    IF HeaderElements = <<>>
    THEN /\ LastRecord.message_sequence = None
         /\ LastRecord.session_status = None
         /\ LastRecord.momsn = None
         /\ LastRecord.mtmsn = None
         /\ LastRecord.session_time = None
    ELSE /\ LastRecord.message_sequence = Some(unpack_I(SubSeq(LastHeader, 1, 4)))
         /\ LastRecord.session_status = Some(LastHeader[20])
         /\ LastRecord.momsn = Some(LastHeader[21] * 256 + LastHeader[22])
         /\ LastRecord.mtmsn = Some(LastHeader[23] * 256 + LastHeader[24])
         /\ LastRecord.session_time =
                Some(fromtimestamp(unpack_I(SubSeq(LastHeader, 25, 28))))

\* the GPS fix is there only with a Location element of 11 bytes or more
FixFromElement ==
    (LastRecord.latitude # None \/ LastRecord.longitude # None
         \/ LastRecord.cep_radius # None)
        => ElementsOfType(recv.data, 3, 11) # <<>>

\* the station identifier a Header element of 28 bytes or more carries
HeaderImei ==
    IF HeaderElements = <<>> THEN None
    ELSE Some(strip(decode_ascii_ignore(SubSeq(LastHeader, 5, 19))))

\* C15 as claimed: the record's header fields, station identifier included,
\* are there only with a Header element of 28 bytes or more and are that
\* element's bytes; the GPS fix only with a Location element of 11 or more
C15_NoFieldFabricated ==
    Stored =>
        /\ HeaderFieldsFromElement
        /\ FixFromElement
        /\ LastRecord.imei # None =>
               (HeaderElements # <<>> /\ LastRecord.imei = HeaderImei)

\* C15: as above, but the station identifier is the Header element's when
\* that is not empty after trimming, and otherwise the leftmost run of 15
\* decimal digits in the message read as ASCII, absent when there is none
C15_OnlyIdentifierFromPattern ==
    Stored =>
        /\ HeaderFieldsFromElement
        /\ FixFromElement
        /\ IF truthy_seq(HeaderImei)
           THEN LastRecord.imei = HeaderImei
           ELSE LastRecord.imei = extract_imei_simple(recv.data)

\* a raw message of thirty digits, no Header element in it: the record has
\* a station identifier of fifteen digits and no other header field
C15_Witness ==
    /\ Stored
    /\ recv.data = [n \in 1..30 |-> 49]
    /\ HeaderElements = <<>>
    /\ LastRecord.imei = Some([n \in 1..15 |-> 49])
    /\ LastRecord.session_time = None
    /\ LastRecord.momsn = None

\* the candidate as the Payload element decides it: the bytes of the Payload
\* element when the message has one, else the message when it is 30 bytes
PayloadElements == ElementsOfType(recv.data, 2, 0)
ElementCandidate ==
    IF PayloadElements # <<>> THEN Some(PayloadElements[Len(PayloadElements)].body)
    ELSE IF Len(recv.data) = 30 THEN Some(recv.data)
    ELSE None

\* C16: the candidate is the Payload element's bytes whenever the message has
\* a Payload element, an empty one included, else the raw message when that
\* is 30 bytes long, else there is none; the codec runs exactly when there is
\* a candidate of 30 bytes, and runs on it
C16_CandidateFromPayloadElement ==
    Handled =>
        /\ codec_calls # <<>> <=>
               (ElementCandidate # None /\ Len(Val(ElementCandidate)) = 30)
        /\ codec_calls # <<>> =>
               codec_calls[1].payload_hex.val = Val(ElementCandidate)

----------------------------------------------------------------------------
(* Properties of publish and store, checked under SpecMerge *)

\* the station identifier the handler knows for the message, if any
KnownIdentifier ==
    IF truthy_seq(HeaderImei) THEN HeaderImei ELSE extract_imei_simple(recv.data)

CodecSucceeded ==
    /\ codec_calls # <<>>
    /\ codec_calls[1].ret.raised = None
    /\ codec_calls[1].ret.result.is_decoded

Count(entries, entry) == Cardinality({n \in 1..Len(entries) : entries[n] = entry})

\* C17: a handler requests a publish exactly when the codec ran and returned
\* decode-success true and a station identifier is known; it requests it at
\* most once, for that identifier and that Observation
C17_PublishIffDecodedAndIdentified ==
    Handled =>
        /\ published # <<>> <=> (CodecSucceeded /\ KnownIdentifier # None)
        /\ Len(published) <= 1
        /\ Count(log, "publish") = Len(published)
        /\ published # <<>> =>
               /\ Some(published[1].imei) = KnownIdentifier
               /\ published[1].data = codec_calls[1].ret.result

\* the reference payload in an envelope with a Header element, decoded: one
\* publish request for the Header's identifier
C17_Witness ==
    /\ Handled
    /\ CodecSucceeded
    /\ ElementCandidate = Some(Reference)
    /\ Len(published) = 1
    /\ published[1].imei = ImeiSample
    /\ published[1].data.is_decoded

\* the record lines 103-134 build for the message, whatever the publisher did
ExpectedRecord ==
    ingestion_record(recv.data, ClientAddress, [now EXCEPT !.second = @ - 1],
                     LastParsed, eucaws_data_of(codec_calls))

\* C18: whether the publisher returns success, returns failure or raises,
\* the handler calls the store once, with the record it builds when the
\* publish succeeds, and calls neither publish nor store a second time
C18_StoreOnceWhateverPublishDoes ==
    (Handled /\ published # <<>>) =>
        /\ Count(log, "create") = 1
        /\ Count(log, "publish") = 1
        /\ Len(published) = 1
        /\ Len(db) <= accepted
        /\ Count(log, "error") = 0 => (db # <<>> /\ LastRecord = ExpectedRecord)
        /\ Count(log, "error") = 0 <=> Stored

\* a publish that raises, and the record stored all the same
C18_Witness ==
    /\ Handled
    /\ Len(published) = 1
    /\ published[1].outcome = "raises"
    /\ Count(log, "mqtt_error") = 1
    /\ Stored
    /\ LastRecord.is_eucaws_decoded
    /\ LastRecord.imei = Some(ImeiSample)

----------------------------------------------------------------------------
(* The order of store and publish, checked under SpecMerge *)

\* the handler steps made before step m
StepsBefore(m) == { log[k] : k \in 1..(m - 1) }

----------------------------------------------------------------------------
(* The wind direction in the merged record, checked under SpecMerge *)

----------------------------------------------------------------------------
(* The position in the stored record, checked under SpecIngest *)

\* the Location elements of 11 bytes or more; the last one gives the fix
LocationElements == ElementsOfType(recv.data, 3, 11)
LastFix == LocationElements[Len(LocationElements)].body

\* C27: the record's latitude and longitude are those of the envelope's
\* Location element whenever it has one, whatever their value, 0.0 included,
\* and those of the Observation only when it has none
C27_PositionFromEnvelopeFix ==
    Stored =>
        IF LocationElements # <<>>
        THEN /\ LastRecord.latitude = Some(Dec(unpack_i(SubSeq(LastFix, 2, 5)), 6))
             /\ LastRecord.longitude = Some(Dec(unpack_i(SubSeq(LastFix, 6, 9)), 6))
        ELSE /\ LastRecord.latitude = get(eucaws_data_of(codec_calls), "latitude", None)
             /\ LastRecord.longitude = get(eucaws_data_of(codec_calls), "longitude", None)

----------------------------------------------------------------------------
(* Properties of the store call, checked under SpecIngest *)

HandlerRan == pc = "handle_client"

\* the steps the handler took after its store call
AfterCreate ==
    { log[n] : n \in { m \in 1..Len(log) : \E k \in 1..(m - 1) : log[k] = "create" } }

\* C21 as claimed: every handler makes exactly one store call, whatever the
\* peer sends, a peer that closes without sending a byte included
C21_OneStorePerConnection ==
    HandlerRan => Count(log, "create") = 1

\* C21: a handler that receives at least one byte makes exactly one store
\* call, one that receives nothing (the peer closed, or recv raised) makes
\* none; after the call the handler does nothing but log and close, and the
\* row stored is the record it built
C21_OneStorePerMessage ==
    HandlerRan =>
        /\ Count(log, "create") = (IF recv.exc = None /\ recv.data # <<>> THEN 1 ELSE 0)
        /\ AfterCreate \subseteq {"error", "close"}
        /\ Len(db) <= accepted
        /\ Stored =>
               LastRecord = ingestion_record(recv.data, ClientAddress,
                                             [now EXCEPT !.second = @ - 1], LastParsed,
                                             eucaws_data_of(codec_calls))

\* the peer closes without sending a byte: the handler closes the socket
\* and nothing is stored
C21_Witness ==
    /\ HandlerRan
    /\ recv.exc = None
    /\ recv.data = <<>>
    /\ log = <<"recv", "close">>
    /\ db = <<>>

----------------------------------------------------------------------------
(* Properties of the BitReader, checked under SpecBits *)

LastRead == Val(reads.last)

RECURSIVE BitsValue(_, _, _)
\* the number whose binary digits are bits p..p+n-1 of the data, the first
\* of them the most significant
BitsValue(data, p, n) ==
    IF n = 0 THEN 0 ELSE 2 * BitsValue(data, p, n - 1) + BitAt(data, p + n - 1)

\* an n-bit pattern read as two's complement
TwosComplement(value, n) == IF value >= 2^(n - 1) THEN value - 2^n ELSE value

\* the last call had its bits available
Available == LastRead.position + LastRead.num_bits <= 8 * Len(reader.data)

ReadContract ==
    reads.last # None =>
        /\ LastRead.exc # None <=> ~Available
        /\ Available =>
               /\ get_position(reader) = LastRead.position + LastRead.num_bits
               /\ LastRead.op = "read_bits" =>
                      LastRead.value = BitsValue(reader.data, LastRead.position, LastRead.num_bits)
               /\ LastRead.op = "read_signed_bits" =>
                      LastRead.value =
                          TwosComplement(BitsValue(reader.data, LastRead.position,
                                                   LastRead.num_bits), LastRead.num_bits)

\* C22 as claimed: reads whose bits are available return bits p..p+n-1 most
\* significant first (read_signed_bits as two's complement) and leave the
\* position at p + n, a read fails exactly when p + n > 8*L, and
\* get_position() is the sum of the widths of all successful reads
C22_PositionIsSumOfSuccessfulReads ==
    /\ ReadContract
    /\ get_position(reader) = reads.widths

\* C22: reads whose bits are available return bits p..p+n-1 most significant
\* first (read_signed_bits as two's complement) and leave the position at
\* p + n, a read fails exactly when p + n > 8*L, and get_position() is the sum
\* of the widths of all successful reads until a read fails; a failed read
\* leaves the position at 8*L
C22_BitCursorContract ==
    /\ ReadContract
    /\ ~reads.failed => get_position(reader) = reads.widths
    /\ reads.failed => get_position(reader) = 8 * Len(reader.data)

\* a signed read of ten bits across a byte boundary that gave a negative
\* number, after a successful read
C22_Witness ==
    /\ reads.last # None /\ reads.count = 2 /\ ~reads.failed
    /\ LastRead.op = "read_signed_bits" /\ LastRead.num_bits = 10
    /\ LastRead.position = 3 /\ LastRead.value < 0
    /\ get_position(reader) = 13

----------------------------------------------------------------------------
(* Properties of the publisher, checked under SpecPublisher *)

\* the publishers that connect() was called on
Connected == { i \in 1..Len(publishers) : publishers[i].clients > 0 }

\* the publishers the callers hold for their publish
Held == { callers[c].publisher : c \in { d \in 1..MaxCallers : callers[d].publisher # None } }

\* C25: at most one publisher is created and connected, and every caller
\* publishes through the same one
C25_OnePublisher ==
    /\ Cardinality(Connected) <= 1
    /\ Len(publishers) <= 1
    /\ Cardinality(Held) <= 1

----------------------------------------------------------------------------
(* Properties of stopping the listener, checked under SpecLifecycle *)

StopReturned == lifecycle.stop = "returned"

\* C26: once stop_socket_server() has returned no connection is accepted,
\* and a start() that has finished has left the socket closed and the loop
\* not running
C26_NothingAcceptedAfterStop ==
    StopReturned =>
        /\ lifecycle.late = 0
        /\ lifecycle.start = "done" => server_socket = "closed"

----------------------------------------------------------------------------
(* Properties of repeated codec calls, checked under SpecRepeat *)

\* the calls made so far, two by two
CallPairs == {<<i, j>> \in (1..Len(codec_calls)) \X (1..Len(codec_calls)) : i < j}

\* the payload of the calls decodes and its calendar bits name no instant
RepeatCalendarInvalid ==
    /\ payload_hex.type = "str" /\ wire # None
    /\ Len(Val(wire)) >= 30 /\ Val(wire)[1] = 100 /\ CalendarInvalid(Val(wire))

\* C11 as stated: two calls with the same payload and the same optional
\* fallback time, none supplied included, return identical Observation values.
C11_SameArgumentsSameObservation ==
    \A p \in CallPairs :
        (/\ codec_calls[p[1]].payload_hex = codec_calls[p[2]].payload_hex
         /\ codec_calls[p[1]].session_time = codec_calls[p[2]].session_time) =>
            codec_calls[p[1]].ret.result = codec_calls[p[2]].ret.result

\* C11 amended: two calls with the same payload and the same optional fallback
\* time return Observations that agree in every field but the timestamp, and
\* in the timestamp too unless no fallback time was supplied and the calendar
\* bits name no instant; then each timestamp is the clock at its own call.
C11_SameUpToClockFallback ==
    \A p \in CallPairs :
        LET a == codec_calls[p[1]]
            b == codec_calls[p[2]]
        IN  (a.payload_hex = b.payload_hex /\ a.session_time = b.session_time) =>
               /\ [a.ret.result EXCEPT !.timestamp = None]
                    = [b.ret.result EXCEPT !.timestamp = None]
               /\ a.ret.raised = b.ret.raised
               /\ IF a.session_time = None /\ RepeatCalendarInvalid
                  THEN /\ a.ret.result.timestamp = Some(a.now)
                       /\ b.ret.result.timestamp = Some(b.now)
                  ELSE a.ret.result.timestamp = b.ret.result.timestamp

\* two calls at different times on a payload with an invalid calendar value,
\* once with and once without a fallback time
C11_Witness ==
    /\ Len(codec_calls) = 2
    /\ codec_calls[1].now # codec_calls[2].now
    /\ RepeatCalendarInvalid
    /\ session_time # None
    /\ codec_calls[1].ret.result.timestamp = session_time
    /\ codec_calls[2].ret.result.timestamp = session_time

----------------------------------------------------------------------------
(* Properties of the envelope parser, checked under SpecParse *)

ParsedMessage == pc = "parse_iridium_message"

KnownTypes == {IE_HEADER, IE_PAYLOAD, IE_LOCATION, IE_CONFIRMATION}

\* the offset in the envelope at which the first n elements end
RECURSIVE Boundary(_, _)
Boundary(elements, n) ==
    IF n = 0 THEN 3 ELSE Boundary(elements, n - 1) + Len(elements[n])

\* how many of the elements sent lie entirely in the bytes that arrived
Consumed(b) ==
    CHOOSE n \in 0..Len(b.elements) :
        /\ Boundary(b.elements, n) <= b.cut
        /\ n < Len(b.elements) => Boundary(b.elements, n + 1) > b.cut

\* the fields the first n elements carry, each handled by its type's method
RECURSIVE FieldsOf(_, _, _)
FieldsOf(elements, n, base) ==
    IF n = 0 THEN base
    ELSE parse_ie(FieldsOf(elements, n - 1, base), elements[n][1],
                  SubSeq(elements[n], 4, Len(elements[n])))

EnvelopeFields(data) ==
    [EmptyParsed EXCEPT !.protocol_revision = Some(data[1]),
                        !.message_length = Some(data[2] * 256 + data[3]),
                        !.is_parsed = Some(TRUE)]

\* C12: when the bytes end inside an element (or inside its three-byte
\* prefix), the parser stops without raising, reports is_parsed true as it
\* does for an envelope that ends on an element boundary, and returns exactly
\* the fields of the elements that lie entirely in the bytes
C12_TruncationKeepsConsumedElements ==
    (ParsedMessage /\ buffer.cut >= 3) =>
        /\ parsed.raised = None
        /\ parsed.result.is_parsed = Some(TRUE)
        /\ parsed.result =
               FieldsOf(buffer.elements, Consumed(buffer), EnvelopeFields(buffer.data))

\* an envelope of a Header and a Payload element that ends inside the
\* Payload body: the Header's fields are there, the payload is not
C12_Witness ==
    /\ ParsedMessage
    /\ Len(buffer.elements) = 2
    /\ buffer.elements[1][1] = IE_HEADER
    /\ buffer.elements[2] = IE(IE_PAYLOAD, Reference)
    /\ buffer.cut > Boundary(buffer.elements, 1) + 3
    /\ buffer.cut < Boundary(buffer.elements, 2)
    /\ parsed.result.imei = Some(ImeiSample)
    /\ parsed.result.payload_hex = None
    /\ parsed.result.is_parsed = Some(TRUE)

\* C13: parse_iridium_message raises nothing to its caller, whatever the
\* bytes; is_parsed is always set; a fault inside the parser, such as a
\* message of fewer than three bytes, gives is_parsed false with a
\* parse_error text and leaves the fields collected so far in the result
C13_ParserNeverRaises ==
    ParsedMessage =>
        /\ parsed.raised = None
        /\ parsed.result.is_parsed \in {Some(TRUE), Some(FALSE)}
        /\ parsed.result.is_parsed = Some(FALSE) => parsed.result.parse_error # None
        /\ buffer.cut < 3 =>
               parsed.result = [parse_try(buffer.data).parsed_data EXCEPT
                                   !.is_parsed = Some(FALSE),
                                   !.parse_error = Some("Message too short")]

\* two bytes arrive: is_parsed false, the error text, nothing raised
C13_Witness ==
    /\ ParsedMessage
    /\ buffer.cut = 2
    /\ parsed.raised = None
    /\ parsed.result.is_parsed = Some(FALSE)
    /\ parsed.result.parse_error = Some("Message too short")

\* the buffer without its n-th element, under the same three envelope bytes
Without(b, n) ==
    SubSeq(b.data, 1, Boundary(b.elements, n - 1))
        \o SubSeq(b.data, Boundary(b.elements, n) + 1, Len(b.data))

UnknownAt(b) ==
    { n \in 1..Consumed(b) : b.elements[n][1] \notin KnownTypes }

\* C14: an element of a type other than 1, 2, 3 and 5 whose body lies in the
\* buffer moves the parser 3 + its length bytes on and changes no field: the
\* result is the result for the buffer without that element, and the parser
\* ends 3 + its length bytes further
C14_UnknownElementSkipped ==
    (ParsedMessage /\ buffer.cut >= 3) =>
        \A n \in UnknownAt(buffer) :
            /\ parsed.raised = None
            /\ parsed.result = parse_outcome(Without(buffer, n)).result
            /\ parsed.position =
                   parse_outcome(Without(buffer, n)).position
                       + 3 + unpack_H(SubSeq(buffer.elements[n], 2, 3))

\* an element of type 4 followed by a Header element, all of it arrived: the
\* Header's fields are in the result
C14_Witness ==
    /\ ParsedMessage
    /\ Len(buffer.elements) = 2
    /\ buffer.elements[1] = IE(4, <<9, 9>>)
    /\ buffer.elements[2] = IE(IE_HEADER, HeaderBody(ImeiSample))
    /\ buffer.cut = Boundary(buffer.elements, 2)
    /\ parsed.position = buffer.cut
    /\ parsed.result.imei = Some(ImeiSample)
    /\ parsed.result.momsn = Some(7)

----------------------------------------------------------------------------
(* Properties of the listener, checked under SpecServerFair *)

\* the rows the handler of thread t has stored
RowsOf(t) ==
    SelectSeq(db, LAMBDA row : row.source_port = threads[t].connection.address[2])

\* the thread's handler comes to a call that never returns
WillHang(t) ==
    \/ threads[t].connection.input.hang = "recv"
    \/ /\ threads[t].connection.input.hang = "create"
       /\ threads[t].connection.input.rx.exc = None
       /\ threads[t].connection.input.rx.data # <<>>

Confined ==
    /\ acceptor.pc \in {"accept", "start"}
    /\ Len(db) <= Len(threads)
    /\ \A t \in 1..Len(threads) :
         /\ threads[t].pc = "done" =>
                /\ ~threads[t].open
                /\ RowsOf(t) = effect(threads[t].connection, now).created
         /\ threads[t].pc \in {"recv", "process", "create"} =>
                (threads[t].open /\ RowsOf(t) = <<>>)

\* C19: whatever fails in one handler, the accept loop stays in its loop,
\* every handler that has ended has closed its socket and stored exactly the
\* record it stores when it runs alone, and every handler that does not hang
\* comes to its end
C19_FailureConfinedToHandler ==
    /\ []Confined
    /\ \A t \in 1..MaxPeers :
         (t <= Len(threads) /\ ~WillHang(t))
             ~> (t <= Len(threads) /\ threads[t].pc = "done")

\* the first handler's recv raised and the handler has ended, its socket
\* closed; the second was accepted after it and has stored its record
C19_Witness ==
    /\ Len(threads) = 2
    /\ threads[1].connection.input.rx.exc # None
    /\ threads[1].raised
    /\ threads[1].pc = "done" /\ ~threads[1].open
    /\ threads[2].pc = "done" /\ ~threads[2].open
    /\ Len(RowsOf(2)) = 1
    /\ acceptor.pc = "accept"

OneThreadEach ==
    /\ accepted = Len(threads) + (IF acceptor.pc = "start" THEN 1 ELSE 0)
    /\ acceptor.pc = "start" <=> acceptor.connection # None
    /\ \A t \in 1..Len(threads) : threads[t].connection.address = PeerAddress(t)

\* C20: every accepted connection gets one handler thread of its own, and
\* the loop goes back to accept without waiting for it: every connection made
\* is accepted and, unless its own handler hangs, handled to its end, whatever
\* the handlers of other connections do
C20_HandlerPerConnectionNoWaiting ==
    /\ []OneThreadEach
    /\ \A n \in 1..MaxPeers :
         (accepted + Len(backlog) >= n)
             ~> (n <= Len(threads) /\ (WillHang(n) \/ threads[n].pc = "done"))

\* the first handler hangs in recv; the second connection was accepted
\* after it and its handler has stored its record and ended
C20_Witness ==
    /\ Len(threads) = 2
    /\ threads[1].connection.input.hang = "recv"
    /\ threads[1].pc = "recv"
    /\ threads[2].pc = "done"
    /\ ~WillHang(2)
    /\ Len(RowsOf(2)) = 1

====
